---- MODULE Spec2Model ----
(***************************************************************************)
(* pspm-cli: the dependency resolver (resolver.ts), the `add` and          *)
(* `install` orchestrators (commands/add.ts, commands/install.ts), the     *)
(* lockfile and manifest stores and `remove`, as one state machine.        *)
(*                                                                         *)
(* One behaviour is one invocation of the CLI in a project directory: Init *)
(* draws the registry contents, the project's files as earlier invocations *)
(* left them, and the command line.  Every await of the source is a step   *)
(* boundary, so a behaviour that stops is a process that was killed there. *)
(***************************************************************************)
EXTENDS Integers, Sequences, FiniteSets, TLC

VARIABLES
    scenario,        \* which registry the run talks to
    cmd,             \* the command line: [kind, specs, frozen, agents, target]
    pc,              \* position of the command's control flow
    faults,          \* number of injected I/O failures so far
    queue,           \* resolveRecursive: BFS queue of QueueItem
    rangesByPackage, \* resolveRecursive: Map name -> CollectedRange[]
    processing,      \* resolveRecursive: Set of names already fetched
    nodes,           \* graph.nodes: Map name -> DependencyNode
    errors,          \* graph.errors
    conflicts,       \* graph.conflicts
    p2idx,           \* resolveRecursive: position of the Phase 2 loop
    installOrder,    \* ResolutionResult.installOrder
    success,         \* ResolutionResult.success
    rootDeps,        \* add: the rootDeps record passed to resolveRecursive
    validationErrors,\* add: number of specifiers that failed validation
    missingDeps,     \* install: manifest dependencies absent from the lockfile
    installedSkills, \* install: skills extracted so far, to be linked
    idx,             \* add/install: position of the current package loop
    cur,             \* the package being installed: [name, bytes, ...]
    results,         \* add: results[] (specifier, success)
    lockfile,        \* pspm-lock.json, NoFile when absent
    manifest,        \* pspm.json dependencies, NoFile when absent
    store,           \* .pspm/skills: extracted payloads, name -> version
    temp,            \* .temp.tgz files present under a destination
    cache,           \* .pspm/cache: set of [key, bytes]
    links,           \* agent symlinks: set of [agent, name]
    exitCode,        \* process exit status, -1 while running
    log,             \* history: the steps completed so far, <<step, package>>
    disk0,           \* history: the project files the invocation started with
    lockBytes,       \* the bytes at pspm-lock.json while invocations write it
    writers,         \* invocations inside addToLockfile: [pc, fullName, buffer]
    tasks,           \* calls in progress when functions are run on their own
    fsys,            \* directory entries by path, for the functions working on paths
    run,             \* install: 1 in the first invocation, 2 in a re-run
    disk1            \* history: the project files the first of two invocations started with

vars == <<scenario, cmd, pc, faults, queue, rangesByPackage, processing, nodes,
          errors, conflicts, p2idx, installOrder, success, rootDeps,
          validationErrors, missingDeps, installedSkills, idx, cur,
          results, lockfile, manifest, store, temp, cache, links, exitCode, log, disk0,
          lockBytes, writers, tasks, fsys, run, disk1>>

resolverVars == <<queue, rangesByPackage, processing, nodes, errors, conflicts,
                  p2idx, installOrder, success>>
diskVars == <<lockfile, manifest, store, temp, cache, links>>
envVars == <<scenario, cmd, disk0>>
fsVars == <<lockBytes, writers>>
auxVars == <<tasks, fsys, run, disk1>>
cmdVars == <<rootDeps, validationErrors, missingDeps, installedSkills, idx, cur, results>>

----------------------------------------------------------------------------
(* Bounds *)

MaxSpecs == 2       \* specifiers on one `add` command line
MaxFaults == 1      \* injected I/O failures in one invocation
MaxLocked == 2      \* entries of the lockfile an invocation starts with

(* Program constants *)

MAX_DEPENDENCY_DEPTH == 5

----------------------------------------------------------------------------
(* Ordered maps: a JavaScript object or Map keeps its keys in insertion    *)
(* order, and assigning an existing key keeps the key's position.  A map   *)
(* is a sequence of records with a `name` field.                           *)

Null == 0
NoFile == [absent |-> TRUE]

Keys(m) == [i \in 1..Len(m) |-> m[i].name]
KeySet(m) == {m[i].name : i \in 1..Len(m)}
Has(m, k) == \E i \in 1..Len(m) : m[i].name = k
Get(m, k) == m[CHOOSE i \in 1..Len(m) : m[i].name = k]
Put(m, r) ==
    IF Has(m, r.name)
    THEN [i \in 1..Len(m) |-> IF m[i].name = r.name THEN r ELSE m[i]]
    ELSE Append(m, r)
Del(m, k) == SelectSeq(m, LAMBDA r : r.name # k)

SeqToSet(s) == {s[i] : i \in 1..Len(s)}
Includes(s, x) == \E i \in 1..Len(s) : s[i] = x
IndexOf(s, x) == IF Includes(s, x) THEN CHOOSE i \in 1..Len(s) : s[i] = x /\ \A j \in 1..(i-1) : s[j] # x ELSE 0

-----------------------------------------------------------------------------
(* node:path on paths held as sequences of segments; an absolute path      *)
(* starts with the segment "/"                                              *)

IsAbsolute(p) == p # <<>> /\ p[1] = "/"

\* path.normalize: "." is dropped, ".." removes the segment before it
RECURSIVE NormalizeFrom(_, _)
NormalizeFrom(acc, p) ==
    IF p = <<>> THEN acc
    ELSE LET seg == Head(p)
             last == IF acc = <<>> THEN "" ELSE acc[Len(acc)]
         IN IF seg = "." THEN NormalizeFrom(acc, Tail(p))
            ELSE IF seg = ".."
            THEN IF last = "/" THEN NormalizeFrom(acc, Tail(p))
                 ELSE IF acc # <<>> /\ last # ".."
                 THEN NormalizeFrom(SubSeq(acc, 1, Len(acc) - 1), Tail(p))
                 ELSE NormalizeFrom(Append(acc, ".."), Tail(p))
            ELSE NormalizeFrom(Append(acc, seg), Tail(p))
Normalize(p) == NormalizeFrom(<<>>, p)

\* path.join, path.dirname, path.resolve of a relative path against a directory
join(a, b) == Normalize(a \o b)
dirname(p) == SubSeq(p, 1, Len(p) - 1)
resolve(dir, rel) == Normalize(dir \o rel)

\* path.relative(from, to) of two absolute paths: up from `from` to the
\* common ancestor, then down to `to`
CommonLen(a, b) ==
    LET n == IF Len(a) < Len(b) THEN Len(a) ELSE Len(b)
        agree == {k \in 0..n : \A i \in 1..k : a[i] = b[i]}
    IN CHOOSE k \in agree : \A j \in agree : j <= k
\* a target computed from the link itself instead of its parent directory
relative_FromLink(from, to) ==
    LET k == CommonLen(from, to)
    IN [i \in 1..(Len(from) + 1 - k) |-> ".."] \o SubSeq(to, k + 1, Len(to))

\* path.relative
relative(from, to) ==
    LET k == CommonLen(from, to)
    IN [i \in 1..(Len(from) - k) |-> ".."] \o SubSeq(to, k + 1, Len(to))

----------------------------------------------------------------------------
(* Semver.  A version "M.m.p" is the number 100*M + 10*m + p and its        *)
(* prerelease "M.m.p-rc" that number plus 1000; a string that is not a     *)
(* valid semver is a negative number.  A range is a record.                *)

Star == [op |-> "*", v |-> 0]
Latest == [op |-> "latest", v |-> 0]
Empty == [op |-> "", v |-> 0]
Caret(v) == [op |-> "^", v |-> v]
Gte(v) == [op |-> ">=", v |-> v]
Exact(v) == [op |-> "=", v |-> v]

Valid(v) == v > 0

\* the prerelease of a version, and semver's precedence: by M.m.p, a
\* prerelease before its release
Pre(v) == v + 1000
IsPre(v) == v > 1000
Base(v) == IF IsPre(v) THEN v - 1000 ELSE v
Precedence(v) == 2 * Base(v) + (IF IsPre(v) THEN 0 ELSE 1)

\* semver.satisfies(version, range): a prerelease satisfies a range only
\* through a comparator that names a prerelease of the same M.m.p
Satisfies(v, r) ==
    CASE r.op = "*" -> ~IsPre(v)
      [] r.op = "" -> ~IsPre(v)
      [] r.op = "latest" -> FALSE
      [] r.op = "^" -> /\ Precedence(v) >= Precedence(r.v)
                       /\ Base(v) < ((Base(r.v) \div 100) + 1) * 100
                       /\ IsPre(v) => (IsPre(r.v) /\ Base(v) = Base(r.v))
      [] r.op = ">=" -> /\ Precedence(v) >= Precedence(r.v)
                        /\ IsPre(v) => (IsPre(r.v) /\ Base(v) = Base(r.v))
      [] r.op = "=" -> v = r.v

SetMax(S) == CHOOSE x \in S : \A y \in S : Precedence(y) <= Precedence(x)

\* versions.filter(semver.valid).sort(semver.rcompare)
SortDesc(S0) ==
    LET Sorted[S \in SUBSET S0] ==
            IF S = {} THEN <<>> ELSE <<SetMax(S)>> \o Sorted[S \ {SetMax(S)}]
    IN Sorted[S0]

SortedValid(versions) == SortDesc({v \in SeqToSet(versions) : Valid(v)})

NormalizeRange(r) == IF r.op = "" \/ r.op = "latest" \/ r.op = "*" THEN Star ELSE r

RECURSIVE FirstSatisfying(_, _)
FirstSatisfying(sorted, ranges) ==
    IF sorted = <<>> THEN Null
    ELSE IF \A i \in 1..Len(ranges) : Satisfies(Head(sorted), ranges[i])
         THEN Head(sorted)
         ELSE FirstSatisfying(Tail(sorted), ranges)

findHighestSatisfying(ranges, availableVersions) ==
    LET sorted == SortedValid(availableVersions)
        normalizedRanges == [i \in 1..Len(ranges) |-> NormalizeRange(ranges[i])]
    IN IF sorted = <<>> THEN Null ELSE FirstSatisfying(sorted, normalizedRanges)

resolveVersion(range, availableVersions) ==
    LET sorted == SortedValid(availableVersions)
    IN IF range.op = "" \/ range.op = "latest" \/ range.op = "*"
       THEN (IF sorted = <<>> THEN Null ELSE Head(sorted))
       ELSE FirstSatisfying(sorted, <<range>>)

----------------------------------------------------------------------------
(* The registry, as the two endpoints the client consumes.  A scenario is  *)
(* one registry content; package names are the short strings below, all of *)
(* the form @user/<username>/<name> except InvalidName.                    *)

Scenarios == {"direct", "diamond", "conflict", "chain", "cycle", "swap", "deep"}
DeepChain == <<"p0", "p1", "p2", "p3", "p4", "p5", "p6">>
Pkgs == {"a", "b", "c", "u", "w"} \cup {DeepChain[i] : i \in 1..Len(DeepChain)}
InvalidName == "not-a-skill"

ValidName(name) == name # InvalidName

Dep(n, r) == [name |-> n, range |-> r]

\* GET /api/skills/:username/:name/versions ; <<>> when the skill is unknown
RegVersions(s, p) ==
    CASE s = "direct" /\ p = "a" -> <<100, 110, 200>>
      [] s = "diamond" /\ p \in {"a", "b"} -> <<100>>
      [] s = "diamond" /\ p = "u" -> <<100, 110, 120, 130>>
      [] s = "conflict" /\ p \in {"a", "b"} -> <<100>>
      [] s = "conflict" /\ p = "u" -> <<100, 200>>
      [] s = "chain" /\ p \in {"a", "b", "c"} -> <<100>>
      [] s = "cycle" /\ p \in {"a", "b", "c"} -> <<100>>
      [] s = "swap" /\ p = "a" -> <<100, 110>>
      [] s = "swap" /\ p \in {"b", "w"} -> <<100>>
      [] s = "swap" /\ p = "u" -> <<200>>
      [] s = "deep" /\ Includes(DeepChain, p) -> <<100>>
      [] OTHER -> <<>>

\* manifest.dependencies of GET /api/skills/:username/:name/:version
RegDeps(s, p, v) ==
    CASE s = "diamond" /\ p = "a" -> <<Dep("u", Caret(100))>>
      [] s = "diamond" /\ p = "b" -> <<Dep("u", Gte(120))>>
      [] s = "conflict" /\ p = "a" -> <<Dep("u", Caret(100))>>
      [] s = "conflict" /\ p = "b" -> <<Dep("u", Caret(200))>>
      [] s = "chain" /\ p = "a" -> <<Dep("b", Caret(100))>>
      [] s = "chain" /\ p = "b" -> <<Dep("c", Star)>>
      [] s = "cycle" /\ p = "a" -> <<Dep("b", Caret(100))>>
      [] s = "cycle" /\ p = "b" -> <<Dep("a", Caret(100))>>
      [] s = "cycle" /\ p = "c" -> <<Dep("a", Star)>>
      [] s = "swap" /\ p = "a" /\ v = 110 -> <<Dep("u", Caret(200))>>
      [] s = "swap" /\ p = "a" /\ v = 100 -> <<Dep("w", Star)>>
      [] s = "swap" /\ p = "b" -> <<Dep("a", Exact(100))>>
      [] s = "deep" /\ Includes(DeepChain, p) /\ IndexOf(DeepChain, p) < Len(DeepChain) ->
            <<Dep(DeepChain[IndexOf(DeepChain, p) + 1], Star)>>
      [] OTHER -> <<>>

RegHas(s, p) == RegVersions(s, p) # <<>>

\* The tarball the registry serves for a version, its hex checksum, and the
\* integrity string "sha256-" + base64(hex -> bytes).
Tarball(p, v) == <<p, v>>
Corrupt(p, v) == <<p, v, "corrupt">>
DownloadUrl(p, v) == <<"url", p, v>>
\* createHash("sha256").update(data): a digest that no two contents share
Sha256(bytes) == <<"digest", bytes>>
\* the two text encodings of a digest, and their decoders
Base64(d) == <<"base64", d>>
Hex(d) == <<"hex", d>>
FromBase64(t) == t[2]
FromHex(t) == t[2]
\* `sha256-${hash.digest("base64")}`
calculateIntegrity(bytes) == <<"sha256-", Base64(Sha256(bytes))>>
\* versionInfo.checksum: the registry's hex SHA-256 of the tarball
RegChecksum(p, v) == Hex(Sha256(Tarball(p, v)))
\* `sha256-${Buffer.from(versionInfo.checksum, "hex").toString("base64")}`
RegIntegrity(p, v) == <<"sha256-", Base64(FromHex(RegChecksum(p, v)))>>
\* an integrity string that /^sha256-(.+)$/ does not match
MalformedIntegrity(p, v) == <<"md5-", Base64(Sha256(Tarball(p, v)))>>

----------------------------------------------------------------------------
(* resolveRecursive                                                        *)

Err(t, p, path) == [type |-> t, package |-> p, path |-> path]

QueueItem(n, r, d, dep, path) ==
    [name |-> n, versionRange |-> r, depth |-> d, dependent |-> dep, path |-> path]

DependencyNode(item, v) ==
    [name |-> item.name,
     version |-> v,
     versionRange |-> item.versionRange,
     downloadUrl |-> DownloadUrl(item.name, v),
     integrity |-> RegIntegrity(item.name, v),
     depth |-> item.depth,
     dependencies |-> RegDeps(scenario, item.name, v),
     dependents |-> <<item.dependent>>,
     isDirect |-> (item.depth = 0)]

\* const rootDeps = {}; for each specifier: queue.push({name, range, depth 0})
InitialQueue(roots) ==
    [i \in 1..Len(roots) |-> QueueItem(roots[i].name, roots[i].range, 0, "root", <<>>)]

\* rangesByPackage.get(name).push({range, dependent, depth})
CollectRange(rbp, item) ==
    LET r == [range |-> item.versionRange, dependent |-> item.dependent, depth |-> item.depth]
    IN IF Has(rbp, item.name)
       THEN Put(rbp, [name |-> item.name, ranges |-> Append(Get(rbp, item.name).ranges, r)])
       ELSE Append(rbp, [name |-> item.name, ranges |-> <<r>>])

\* a depth check that lets one more level through
depthExceeded_OffByOne(depth) == depth > MAX_DEPENDENCY_DEPTH + 1

\* if (depth > config.maxDepth)
depthExceeded(depth) == depth > MAX_DEPENDENCY_DEPTH

\* a loop that fetches again for every range it meets
alreadyProcessing_Never(name) == FALSE

\* if (processing.has(name)) continue
alreadyProcessing(name) == name \in processing

\* One iteration of the Phase 1 loop for the dequeued item under network
\* outcome f: what it records.  `used` tells whether a request was made
\* whose outcome f decided.
Phase1Result(item, f) ==
    LET name == item.name
        R(e, collect, fetch, n, used) ==
            [errs |-> e, collect |-> collect, fetch |-> fetch, node |-> n, used |-> used]
        versions == RegVersions(scenario, name)
        resolvedVersion == findHighestSatisfying(<<item.versionRange>>, versions)
    IN IF depthExceeded(item.depth)
       THEN R(<<Err("max_depth_exceeded", name, Append(item.path, name))>>, FALSE, FALSE, <<>>, FALSE)
       ELSE IF Includes(item.path, name)
       THEN R(<<Err("circular_dependency", name, Append(item.path, name))>>, FALSE, FALSE, <<>>, FALSE)
       ELSE IF alreadyProcessing(name)
       THEN R(<<>>, TRUE, FALSE, <<>>, FALSE)
       ELSE IF ~ValidName(name)
       THEN R(<<Err("package_not_found", name, <<>>)>>, TRUE, TRUE, <<>>, FALSE)
       ELSE IF f = "throw"
       THEN R(<<Err("fetch_error", name, <<>>)>>, TRUE, TRUE, <<>>, TRUE)
       ELSE IF f = "list" \/ versions = <<>>
       THEN R(<<Err("package_not_found", name, <<>>)>>, TRUE, TRUE, <<>>, f = "list")
       ELSE IF resolvedVersion = Null
       THEN R(<<Err("no_satisfying_version", name, <<>>)>>, TRUE, TRUE, <<>>, FALSE)
       ELSE IF f = "get"
       THEN R(<<Err("fetch_error", name, <<>>)>>, TRUE, TRUE, <<>>, TRUE)
       ELSE R(<<>>, TRUE, TRUE, <<DependencyNode(item, resolvedVersion)>>, FALSE)

\* for (depName, depRange) of dependencies: queue.push({... depth + 1, path + name})
Enqueued(item, node) ==
    [i \in 1..Len(node.dependencies) |->
        QueueItem(node.dependencies[i].name, node.dependencies[i].range,
                  item.depth + 1, item.name, Append(item.path, item.name))]

Phase1Step ==
    /\ pc = "phase1"
    /\ queue # <<>>
    /\ \E f \in {"none", "list", "get", "throw"} :
         LET item == Head(queue)
             r == Phase1Result(item, f)
         IN /\ IF f = "none" THEN TRUE ELSE r.used /\ faults < MaxFaults
            /\ faults' = IF f = "none" THEN faults ELSE faults + 1
            /\ errors' = errors \o r.errs
            /\ rangesByPackage' = IF r.collect THEN CollectRange(rangesByPackage, item)
                                  ELSE rangesByPackage
            /\ processing' = IF r.fetch THEN processing \cup {item.name} ELSE processing
            /\ nodes' = IF r.node # <<>> THEN Put(nodes, r.node[1]) ELSE nodes
            /\ queue' = IF r.node # <<>> THEN Tail(queue) \o Enqueued(item, r.node[1])
                        ELSE Tail(queue)
    /\ UNCHANGED <<auxVars, fsVars, envVars, pc, conflicts, p2idx, installOrder, success, cmdVars,
                   diskVars, exitCode, log>>

Phase1Done ==
    /\ pc = "phase1"
    /\ queue = <<>>
    /\ pc' = "phase2"
    /\ p2idx' = 1
    /\ UNCHANGED <<auxVars, fsVars, envVars, faults, queue, rangesByPackage, processing, nodes, errors,
                   conflicts, installOrder, success, cmdVars, diskVars, exitCode, log>>

\* [...new Set(ranges.map(r => r.dependent))]
RECURSIVE Unique(_)
Unique(s) ==
    IF s = <<>> THEN <<>>
    ELSE LET init == Unique(SubSeq(s, 1, Len(s) - 1))
         IN IF Includes(init, s[Len(s)]) THEN init ELSE Append(init, s[Len(s)])

\* One iteration of the Phase 2 loop: the node it leaves and what it records.
Phase2Result(entry, f) ==
    LET name == entry.name
        ranges == entry.ranges
        node == Get(nodes, name)
        node1 == [node EXCEPT !.dependents = Unique([i \in 1..Len(ranges) |-> ranges[i].dependent])]
        allRanges == [i \in 1..Len(ranges) |-> ranges[i].range]
        availableVersions == RegVersions(scenario, name)
        finalVersion == findHighestSatisfying(allRanges, availableVersions)
        R(n, e, c, used) == [node |-> n, errs |-> e, conflicts |-> c, used |-> used]
    IN IF ~Has(nodes, name) THEN R(<<>>, <<>>, <<>>, FALSE)
       ELSE IF ~ValidName(name) THEN R(<<node1>>, <<>>, <<>>, FALSE)
       ELSE IF f = "list" THEN R(<<node1>>, <<>>, <<>>, TRUE)
       ELSE IF finalVersion = Null
       THEN R(<<node1>>,
              <<Err("no_satisfying_version", name, <<>>)>>,
              <<[package |-> name,
                 ranges |-> [i \in 1..Len(ranges) |->
                               [dependent |-> ranges[i].dependent, range |-> ranges[i].range]],
                 availableVersions |-> availableVersions]>>,
              FALSE)
       ELSE IF finalVersion = node.version THEN R(<<node1>>, <<>>, <<>>, FALSE)
       ELSE IF f = "get" THEN R(<<node1>>, <<>>, <<>>, TRUE)
       ELSE R(<<[node1 EXCEPT !.version = finalVersion,
                              !.downloadUrl = DownloadUrl(name, finalVersion),
                              !.integrity = RegIntegrity(name, finalVersion),
                              !.dependencies = RegDeps(scenario, name, finalVersion)]>>,
              <<>>, <<>>, FALSE)

Phase2Step ==
    /\ pc = "phase2"
    /\ p2idx <= Len(rangesByPackage)
    /\ \E f \in {"none", "list", "get"} :
         LET r == Phase2Result(rangesByPackage[p2idx], f)
         IN /\ IF f = "none" THEN TRUE ELSE r.used /\ faults < MaxFaults
            /\ faults' = IF f = "none" THEN faults ELSE faults + 1
            /\ nodes' = IF r.node # <<>> THEN Put(nodes, r.node[1]) ELSE nodes
            /\ errors' = errors \o r.errs
            /\ conflicts' = conflicts \o r.conflicts
    /\ p2idx' = p2idx + 1
    /\ UNCHANGED <<auxVars, fsVars, envVars, pc, queue, rangesByPackage, processing, installOrder,
                   success, cmdVars, diskVars, exitCode, log>>

Phase2Done ==
    /\ pc = "phase2"
    /\ p2idx > Len(rangesByPackage)
    /\ pc' = "phase3"
    /\ UNCHANGED <<auxVars, fsVars, envVars, faults, resolverVars, cmdVars, diskVars, exitCode, log>>

----------------------------------------------------------------------------
(* topologicalSort: Kahn's algorithm over graph.nodes                      *)

DepNames(node) == [i \in 1..Len(node.dependencies) |-> node.dependencies[i].name]

\* inDegree.get(name): the dependencies of name that are nodes of the graph
InDegree(ns, name) ==
    Cardinality({i \in 1..Len(Get(ns, name).dependencies) :
                    Has(ns, Get(ns, name).dependencies[i].name)})

\* dependents.get(d): the nodes that list d, in the order of graph.nodes
Dependents(ns, d) == SelectSeq(Keys(ns), LAMBDA n : Includes(DepNames(Get(ns, n)), d))

\* for (const dependent of deps) { newDegree = inDegree - 1; push when 0 }
RECURSIVE Relax(_, _, _, _)
Relax(deps, inDegree, q, sorted) ==
    IF deps = <<>> THEN [inDegree |-> inDegree, q |-> q]
    ELSE LET dependent == Head(deps)
             newDegree == inDegree[dependent] - 1
         IN Relax(Tail(deps),
                  [inDegree EXCEPT ![dependent] = newDegree],
                  IF newDegree = 0 /\ ~Includes(sorted, dependent) THEN Append(q, dependent) ELSE q,
                  sorted)

\* one turn of the while loop: current = queue.shift(); sorted.push(current);
\* then the loop over its dependents
KahnStep(ns, inDegree, q, sorted) ==
    LET r == Relax(Dependents(ns, Head(q)), inDegree, Tail(q), Append(sorted, Head(q)))
    IN [inDegree |-> r.inDegree, q |-> r.q, sorted |-> Append(sorted, Head(q))]

\* while (queue.length > 0): the state after a turn is bound to s before
\* the next turn is evaluated
RECURSIVE Kahn(_, _, _, _)
Kahn(ns, inDegree, q, sorted) ==
    IF q = <<>> THEN sorted
    ELSE CHOOSE result \in {Kahn(ns, s.inDegree, s.q, s.sorted) :
                               s \in {KahnStep(ns, inDegree, q, sorted)}} : TRUE

\* the order in which the nodes were discovered, dependents first
topologicalSort_DiscoveryOrder(ns) == Keys(ns)

topologicalSort(ns) ==
    LET inDegree == [n \in KeySet(ns) |-> InDegree(ns, n)]
        q == SelectSeq(Keys(ns), LAMBDA n : inDegree[n] = 0)
    IN Kahn(ns, inDegree, q, <<>>)

\* add going on to install whatever resolveRecursive returned
Phase3_IgnoreFailure ==
    /\ pc = "phase3"
    /\ installOrder' = topologicalSort(nodes)
    /\ success' = (errors = <<>> /\ conflicts = <<>>)
    /\ pc' = "install"
    /\ idx' = 1
    /\ UNCHANGED <<auxVars, fsVars, envVars, faults, queue, rangesByPackage, processing, nodes, errors,
                   conflicts, p2idx, rootDeps, validationErrors, missingDeps, installedSkills,
                   cur, results, diskVars, log, exitCode>>

\* Phase 3 of resolveRecursive and, in add, the check of its result:
\* if (!resolutionResult.success) { printResolutionErrors(); process.exit(1) }
Phase3 ==
    /\ pc = "phase3"
    /\ installOrder' = topologicalSort(nodes)
    /\ success' = (errors = <<>> /\ conflicts = <<>>)
    /\ IF success'
       THEN pc' = "install" /\ idx' = 1 /\ exitCode' = exitCode
       ELSE pc' = "done" /\ idx' = idx /\ exitCode' = 1
    /\ UNCHANGED <<auxVars, fsVars, envVars, faults, queue, rangesByPackage, processing, nodes, errors,
                   conflicts, p2idx, rootDeps, validationErrors, missingDeps, installedSkills,
                   cur, results, diskVars, log>>

----------------------------------------------------------------------------
(* Lockfile and manifest stores                                            *)

RegistryUrl == "https://registry.pspm.dev"

LockEntry(n, v, url, integ, deps) ==
    [name |-> n, version |-> v, resolved |-> url, integrity |-> integ, dependencies |-> deps]

createEmptyLockfile ==
    [lockfileVersion |-> 4, registryUrl |-> RegistryUrl, packages |-> <<>>, githubPackages |-> <<>>]

\* the document writeLockfile serialises: version 4 if any package has
\* dependencies, otherwise 3; githubPackages only when non-empty
writeLockfile(lf) ==
    [lockfileVersion |->
        IF \E i \in 1..Len(lf.packages) : lf.packages[i].dependencies # <<>> THEN 4 ELSE 3,
     registryUrl |-> lf.registryUrl,
     packages |-> lf.packages,
     githubPackages |-> lf.githubPackages]

\* readLockfile() ?? createEmptyLockfile()
ReadOrCreate(file) == IF file = NoFile THEN createEmptyLockfile ELSE file

addToLockfile(file, entry) ==
    LET lf == ReadOrCreate(file)
    IN writeLockfile([lf EXCEPT !.packages = Put(lf.packages, [entry EXCEPT !.dependencies = <<>>])])

addToLockfileWithDeps(file, entry, dependencies) ==
    LET lf == ReadOrCreate(file)
    IN writeLockfile([lf EXCEPT !.packages = Put(lf.packages, [entry EXCEPT !.dependencies = dependencies])])

\* the file after removeFromLockfile; unchanged when it returns false
removeFromLockfile(file, fullName) ==
    IF file = NoFile THEN file
    ELSE IF ~Has(file.packages, fullName) THEN file
    ELSE writeLockfile([file EXCEPT !.packages = Del(file.packages, fullName)])

LockedPackages(file) == IF file = NoFile THEN <<>> ELSE file.packages
LockedGitHub(file) == IF file = NoFile THEN <<>> ELSE file.githubPackages

\* the commit a GitHub ref resolves to, and a githubPackages entry
GhSpec == "github:o/r"
GhCommit == 1
GitHubLockEntry(n, commit, integ) ==
    [name |-> n, version |-> commit, resolved |-> <<"https://github.com", n>>,
     integrity |-> integ, gitCommit |-> commit, gitRef |-> "HEAD"]

addGitHubToLockfile(file, entry) ==
    LET lf == ReadOrCreate(file)
    IN writeLockfile([lf EXCEPT !.githubPackages = Put(lf.githubPackages, entry)])

\* { dependencies: {} }: no GitHub and no local dependencies either
createMinimalManifest ==
    [dependencies |-> <<>>, githubDependencies |-> <<>>, localDependencies |-> <<>>]

\* ensureManifest(); manifest.dependencies[skillName] = versionRange
addDependency(file, skillName, versionRange) ==
    LET m == IF file = NoFile THEN createMinimalManifest ELSE file
    IN [m EXCEPT !.dependencies = Put(m.dependencies, [name |-> skillName, range |-> versionRange])]

removeDependency(file, skillName) ==
    IF file = NoFile THEN file
    ELSE IF ~Has(file.dependencies, skillName) THEN file
    ELSE [file EXCEPT !.dependencies = Del(file.dependencies, skillName)]

getDependencies(file) == IF file = NoFile THEN <<>> ELSE file.dependencies
getGitHubDependencies(file) == IF file = NoFile THEN <<>> ELSE file.githubDependencies
getLocalDependencies(file) == IF file = NoFile THEN <<>> ELSE file.localDependencies

----------------------------------------------------------------------------
(* add                                                                     *)

NoCur == [name |-> "", version |-> Null, bytes |-> <<>>, ok |-> TRUE]

\* validateRegistryPackage for cmd.specs[idx], then the next specifier; after
\* the last one, exit 1 if none resolved, else build rootDeps and resolve.
RootRange(spec, resolvedVersion) ==
    IF spec.range = Empty THEN Caret(resolvedVersion) ELSE spec.range

ValidateResult(spec, f) ==
    LET versions == RegVersions(scenario, spec.name)
        resolvedVersion == resolveVersion(IF spec.range = Empty THEN Star ELSE spec.range, versions)
        R(ok, used) == [ok |-> ok, used |-> used, version |-> resolvedVersion]
    IN IF f = "list" THEN R(FALSE, TRUE)
       ELSE IF versions = <<>> THEN R(FALSE, FALSE)
       ELSE IF resolvedVersion = Null THEN R(FALSE, FALSE)
       ELSE IF f = "get" THEN R(FALSE, TRUE)
       ELSE R(TRUE, FALSE)

Validate ==
    /\ pc = "validate"
    /\ idx <= Len(cmd.specs)
    /\ \E f \in {"none", "list", "get"} :
         LET spec == cmd.specs[idx]
             r == ValidateResult(spec, f)
         IN /\ IF f = "none" THEN TRUE ELSE r.used /\ faults < MaxFaults
            /\ faults' = IF f = "none" THEN faults ELSE faults + 1
            /\ rootDeps' = IF r.ok
                           THEN Put(rootDeps, [name |-> spec.name, range |-> RootRange(spec, r.version)])
                           ELSE rootDeps
            /\ validationErrors' = IF r.ok THEN validationErrors ELSE validationErrors + 1
    /\ idx' = idx + 1
    /\ UNCHANGED <<auxVars, fsVars, envVars, pc, resolverVars, missingDeps, installedSkills, cur, results,
                   diskVars, exitCode, log>>

ValidateDone ==
    /\ pc = "validate"
    /\ idx > Len(cmd.specs)
    /\ IF rootDeps = <<>>
       THEN pc' = "done" /\ exitCode' = 1 /\ queue' = queue
       ELSE pc' = "phase1" /\ exitCode' = exitCode /\ queue' = InitialQueue(rootDeps)
    /\ UNCHANGED <<auxVars, fsVars, envVars, faults, rangesByPackage, processing, nodes, errors, conflicts,
                   p2idx, installOrder, success, cmdVars, diskVars, log>>

CurNode == Get(nodes, installOrder[idx])

\* the catch around installFromNode: results.push({success: false}); next node
InstallFailed ==
    /\ results' = Append(results, [specifier |-> cur.name, success |-> FALSE])
    /\ idx' = idx + 1
    /\ cur' = NoCur
    /\ pc' = "install"

\* installFromNode: fetch(node.downloadUrl); a response that is not ok throws
AddFetch ==
    /\ pc = "install"
    /\ idx <= Len(installOrder)
    /\ \E f \in {"none", "http", "corrupt"} :
         /\ IF f = "none" THEN faults' = faults ELSE faults < MaxFaults /\ faults' = faults + 1
         /\ IF f = "http"
            THEN /\ results' = Append(results, [specifier |-> CurNode.name, success |-> FALSE])
                 /\ idx' = idx + 1
                 /\ UNCHANGED <<cur, pc, log>>
            ELSE /\ cur' = [name |-> CurNode.name, version |-> CurNode.version,
                            bytes |-> IF f = "corrupt" THEN Corrupt(CurNode.name, CurNode.version)
                                      ELSE Tarball(CurNode.name, CurNode.version),
                            ok |-> TRUE]
                 /\ pc' = "verify"
                 /\ log' = Append(log, <<"fetch", CurNode.name>>)
                 /\ UNCHANGED <<results, idx>>
    /\ UNCHANGED <<auxVars, fsVars, envVars, resolverVars, rootDeps, validationErrors, missingDeps,
                   installedSkills, diskVars, exitCode>>

\* if (integrity !== node.integrity) throw new Error("Checksum verification failed")
AddVerify ==
    /\ pc = "verify"
    /\ IF calculateIntegrity(cur.bytes) # CurNode.integrity
       THEN InstallFailed /\ log' = log
       ELSE /\ pc' = "stage"
            /\ log' = Append(log, <<"verify", cur.name>>)
            /\ UNCHANGED <<results, idx, cur>>
    /\ UNCHANGED <<auxVars, fsVars, envVars, faults, resolverVars, rootDeps, validationErrors, missingDeps,
                   installedSkills, diskVars, exitCode>>

\* the directory at a store path: its payload version and whether complete
StoreEntry(n, v, st) == [name |-> n, version |-> v, state |-> st]
StorePut(st, e) == {x \in st : x.name # e.name} \cup {e}
StoreHas(st, n) == \E x \in st : x.name = n

\* mkdir(destDir, {recursive: true}); writeFile(tempFile, tarballBuffer)
AddStage ==
    /\ pc = "stage"
    /\ store' = IF StoreHas(store, cur.name) THEN store
                ELSE StorePut(store, StoreEntry(cur.name, Null, "empty"))
    /\ temp' = temp \cup {cur.name}
    /\ pc' = "untar"
    /\ log' = Append(log, <<"extract_begin", cur.name>>)
    /\ UNCHANGED <<auxVars, fsVars, envVars, faults, resolverVars, cmdVars, lockfile, manifest, cache,
                   links, exitCode>>

\* try { rm(destDir); mkdir(destDir); writeFile(tempFile); tar -xzf ... }
AddUntar ==
    /\ pc = "untar"
    /\ \E f \in {"none", "tar"} :
         /\ IF f = "none" THEN faults' = faults ELSE faults < MaxFaults /\ faults' = faults + 1
         /\ store' = StorePut(store, StoreEntry(cur.name, cur.version,
                                                IF f = "none" THEN "complete" ELSE "partial"))
         /\ cur' = [cur EXCEPT !.ok = (f = "none")]
         /\ log' = IF f = "none" THEN Append(log, <<"extract", cur.name>>) ELSE log
    /\ pc' = "cleanup"
    /\ UNCHANGED <<auxVars, fsVars, envVars, resolverVars, rootDeps, validationErrors, missingDeps,
                   installedSkills, idx, results, lockfile, manifest, temp, cache, links, exitCode>>

\* finally { rm(tempFile, {force: true}) }, then the tar error propagates
AddCleanup ==
    /\ pc = "cleanup"
    /\ temp' = temp \ {cur.name}
    /\ IF cur.ok
       THEN pc' = "lock" /\ UNCHANGED <<results, idx, cur>>
       ELSE InstallFailed
    /\ UNCHANGED <<auxVars, fsVars, envVars, faults, resolverVars, rootDeps, validationErrors, missingDeps,
                   installedSkills, lockfile, manifest, store, cache, links, exitCode, log>>

\* addToLockfileWithDeps(node.name, {version, resolved, integrity}, node.dependencies)
AddLock ==
    /\ pc = "lock"
    /\ lockfile' = addToLockfileWithDeps(lockfile,
                      LockEntry(CurNode.name, CurNode.version, CurNode.downloadUrl,
                                calculateIntegrity(cur.bytes), <<>>),
                      CurNode.dependencies)
    /\ pc' = "manifest"
    /\ log' = Append(log, <<"lock", cur.name>>)
    /\ UNCHANGED <<auxVars, fsVars, envVars, faults, resolverVars, cmdVars, manifest, store, temp, cache,
                   links, exitCode>>

\* if (options.isDirect) addDependency(node.name, node.versionRange || ^version)
AddManifest ==
    /\ pc = "manifest"
    /\ manifest' = IF CurNode.isDirect
                   THEN addDependency(manifest, CurNode.name,
                                      IF CurNode.versionRange = Empty THEN Caret(CurNode.version)
                                      ELSE CurNode.versionRange)
                   ELSE manifest
    /\ pc' = "link"
    /\ UNCHANGED <<auxVars, fsVars, envVars, faults, resolverVars, cmdVars, lockfile, store, temp, cache,
                   links, exitCode, log>>

\* DEFAULT_AGENT_CONFIGS, and resolveAgentConfig: overrides first, then the
\* built-in table, else null
BuiltInSkillsDir == [a \in {"claude-code", "cursor"} |->
                        IF a = "claude-code" THEN <<".claude", "skills">> ELSE <<".cursor", "skills">>]
NoConfig == <<"null">>
resolveAgentConfig(name, overrides) ==
    IF name \in DOMAIN overrides THEN overrides[name]
    ELSE IF name \in DOMAIN BuiltInSkillsDir THEN BuiltInSkillsDir[name]
    ELSE NoConfig

\* the links createAgentSymlinks asks for: one per skill and known agent
\* (an unknown agent is skipped with a warning)
WantedLinks(skills, agents) ==
    {[agent |-> agents[i], name |-> n] :
        i \in {j \in 1..Len(agents) : resolveAgentConfig(agents[j], <<>>) # NoConfig}, n \in skills}

\* a linker that removes a link it finds in place
createAgentSymlinks_Toggle(ls, skills, agents) ==
    IF Len(agents) = 1 /\ agents[1] = "none" THEN ls
    ELSE (ls \ WantedLinks(skills, agents)) \cup (WantedLinks(skills, agents) \ ls)

\* createAgentSymlinks(skills, {agents}): nothing for the sole agent "none",
\* otherwise one link per known agent and skill
createAgentSymlinks(ls, skills, agents) ==
    IF Len(agents) = 1 /\ agents[1] = "none" THEN ls
    ELSE ls \cup WantedLinks(skills, agents)

\* if (agents[0] !== "none") createAgentSymlinks([skillInfo]); results.push(success)
AddLink ==
    /\ pc = "link"
    /\ IF cmd.agents[1] # "none"
       THEN /\ links' = createAgentSymlinks(links, {cur.name}, cmd.agents)
            /\ log' = Append(log, <<"link", cur.name>>)
       ELSE UNCHANGED <<links, log>>
    /\ results' = Append(results, [specifier |-> cur.name, success |-> TRUE])
    /\ idx' = idx + 1
    /\ cur' = NoCur
    /\ pc' = "install"
    /\ UNCHANGED <<auxVars, fsVars, envVars, faults, resolverVars, rootDeps, validationErrors, missingDeps,
                   installedSkills, lockfile, manifest, store, temp, cache, exitCode>>

Failed(rs) == Cardinality({i \in 1..Len(rs) : ~rs[i].success})

\* if (specifiers.length > 1 && failed > 0) process.exit(1)
AddSummary ==
    /\ pc = "install"
    /\ idx > Len(installOrder)
    /\ pc' = "done"
    /\ exitCode' = IF Len(cmd.specs) > 1 /\ Failed(results) + validationErrors > 0 THEN 1 ELSE 0
    /\ UNCHANGED <<auxVars, fsVars, envVars, faults, resolverVars, cmdVars, diskVars, log>>

----------------------------------------------------------------------------
(* install (installFromLockfile)                                           *)

\* a file of the cache directory: its path and its content
CacheFile(k, b) == [path |-> k, bytes |-> b]
CacheHas(c, k) == \E x \in c : x.path = k
CacheGet(c, k) == CHOOSE x \in c : x.path = k

\* getCacheFilePath throws on an integrity that is not "sha256-..."
NoPath == <<>>

\* a file name built from a prefix of the digest only
getCacheFilePath_Truncated(integrity) ==
    IF integrity[1] # "sha256-" THEN NoPath
    ELSE <<"sha256-", Hex(Sha256(<<FromBase64(integrity[2])[2][1]>>)), ".tgz">>

\* join(cacheDir, `sha256-${Buffer.from(base64Hash, "base64").toString("hex")}.tgz`)
getCacheFilePath(integrity) ==
    IF integrity[1] # "sha256-" THEN NoPath
    ELSE <<"sha256-", Hex(FromBase64(integrity[2])), ".tgz">>

\* writeFile(getCacheFilePath(cacheDir, integrity), data); failures are swallowed
writeToCache(c, integrity, data) ==
    LET cachePath == getCacheFilePath(integrity)
    IN IF cachePath = NoPath THEN c
       ELSE {x \in c : x.path # cachePath} \cup {CacheFile(cachePath, data)}

\* the file's bytes handed over without recomputing their digest
readFromCache_Unverified(c, integrity) ==
    LET cachePath == getCacheFilePath(integrity)
    IN IF cachePath = NoPath THEN <<>>
       ELSE IF ~CacheHas(c, cachePath) THEN <<>>
       ELSE CacheGet(c, cachePath).bytes

\* the bytes readFromCache returns, <<>> (null) on a miss
readFromCache(c, integrity) ==
    LET cachePath == getCacheFilePath(integrity)
    IN IF cachePath = NoPath THEN <<>>
       ELSE IF ~CacheHas(c, cachePath) THEN <<>>
       ELSE IF calculateIntegrity(CacheGet(c, cachePath).bytes) # integrity THEN <<>>
       ELSE CacheGet(c, cachePath).bytes

\* the cache directory after readFromCache: a corrupted file is removed
CacheAfterRead(c, integrity) ==
    LET cachePath == getCacheFilePath(integrity)
    IN IF cachePath # NoPath /\ CacheHas(c, cachePath)
          /\ calculateIntegrity(CacheGet(c, cachePath).bytes) # integrity
       THEN {x \in c : x.path # cachePath}
       ELSE c

\* Phase 1: the manifest dependencies with no lockfile entry; with
\* --frozen-lockfile any such dependency ends the run with exit 1
InstallStart ==
    /\ pc = "i_start"
    /\ missingDeps' = SelectSeq(getDependencies(manifest),
                                LAMBDA d : ~Has(LockedPackages(lockfile), d.name))
    /\ IF missingDeps' # <<>>
       THEN IF cmd.frozen
            THEN pc' = "done" /\ exitCode' = 1
            ELSE pc' = "i_resolve" /\ exitCode' = exitCode
       ELSE pc' = "i_github" /\ exitCode' = exitCode
    /\ idx' = 1
    /\ UNCHANGED <<auxVars, fsVars, envVars, faults, resolverVars, rootDeps, validationErrors,
                   installedSkills, cur, results, diskVars, log>>

\* listSkillVersions, resolveVersion, getSkillVersion and the download of one
\* missing dependency; every failure prints an error and continues
P1Result(dep, f) ==
    LET versions == RegVersions(scenario, dep.name)
        resolved == resolveVersion(IF dep.range = Empty THEN Star ELSE dep.range, versions)
        R(ok, used) == [ok |-> ok, used |-> used, version |-> resolved]
    IN IF ~ValidName(dep.name) THEN R(FALSE, FALSE)
       ELSE IF f = "list" THEN R(FALSE, TRUE)
       ELSE IF versions = <<>> THEN R(FALSE, FALSE)
       ELSE IF resolved = Null THEN R(FALSE, FALSE)
       ELSE IF f = "get" THEN R(FALSE, TRUE)
       ELSE IF f \in {"http", "throw"} THEN R(FALSE, TRUE)
       ELSE R(TRUE, f = "corrupt")

\* a tarball fetch that rejects (no network) reaches the outer catch: exit(1)
P1Resolve ==
    /\ pc = "i_resolve"
    /\ idx <= Len(missingDeps)
    /\ \E f \in {"none", "list", "get", "http", "corrupt", "throw"} :
         LET dep == missingDeps[idx]
             r == P1Result(dep, f)
             responded == Append(log, <<"response", dep.name>>)
         IN /\ IF f = "none" THEN faults' = faults
               ELSE r.used /\ faults < MaxFaults /\ faults' = faults + 1
            /\ IF r.ok
               THEN /\ cur' = [name |-> dep.name, version |-> r.version,
                               bytes |-> IF f = "corrupt" THEN Corrupt(dep.name, r.version)
                                         ELSE Tarball(dep.name, r.version),
                               ok |-> TRUE]
                    /\ pc' = "i_lock"
                    /\ log' = Append(responded, <<"fetch", dep.name>>)
                    /\ idx' = idx
                    /\ exitCode' = exitCode
               ELSE IF f = "throw"
               THEN /\ pc' = "done"
                    /\ exitCode' = 1
                    /\ log' = responded
                    /\ UNCHANGED <<cur, idx>>
               ELSE /\ idx' = idx + 1
                    /\ log' = responded
                    /\ UNCHANGED <<cur, pc, exitCode>>
    /\ UNCHANGED <<auxVars, fsVars, envVars, resolverVars, rootDeps, validationErrors, missingDeps,
                   installedSkills, results, diskVars>>

\* addToLockfile(fullName, {version, resolved, integrity: calculateIntegrity(bytes)})
P1Lock ==
    /\ pc = "i_lock"
    /\ lockfile' = addToLockfile(lockfile,
                      LockEntry(cur.name, cur.version, DownloadUrl(cur.name, cur.version),
                                calculateIntegrity(cur.bytes), <<>>))
    /\ pc' = "i_cache"
    /\ log' = Append(log, <<"lock", cur.name>>)
    /\ UNCHANGED <<auxVars, fsVars, envVars, faults, resolverVars, cmdVars, manifest, store, temp, cache,
                   links, exitCode>>

\* writeToCache(cacheDir, integrity, tarballBuffer); next missing dependency
P1Cache ==
    /\ pc = "i_cache"
    /\ cache' = writeToCache(cache, calculateIntegrity(cur.bytes), cur.bytes)
    /\ idx' = idx + 1
    /\ cur' = NoCur
    /\ pc' = "i_resolve"
    /\ UNCHANGED <<auxVars, fsVars, envVars, faults, resolverVars, rootDeps, validationErrors, missingDeps,
                   installedSkills, results, lockfile, manifest, store, temp, links, exitCode, log>>

\* lockfile = await readLockfile(); on to Phase 2
P1Done ==
    /\ pc = "i_resolve"
    /\ idx > Len(missingDeps)
    /\ pc' = "i_github"
    /\ idx' = 1
    /\ UNCHANGED <<auxVars, fsVars, envVars, faults, resolverVars, rootDeps, validationErrors, missingDeps,
                   installedSkills, cur, results, diskVars, exitCode, log>>

\* Phase 2: the manifest's GitHub dependencies with no githubPackages entry
\* (as read before Phase 1); with --frozen-lockfile any such dependency ends
\* the run with exit 1
GhStart ==
    /\ pc = "i_github"
    /\ missingDeps' = SelectSeq(getGitHubDependencies(manifest),
                                LAMBDA d : ~Has(LockedGitHub(disk0[1]), d.name))
    /\ IF missingDeps' # <<>>
       THEN IF cmd.frozen
            THEN pc' = "done" /\ exitCode' = 1
            ELSE pc' = "i_gh_resolve" /\ exitCode' = exitCode
       ELSE pc' = "i_install" /\ exitCode' = exitCode
    /\ idx' = 1
    /\ UNCHANGED <<auxVars, fsVars, envVars, faults, resolverVars, rootDeps, validationErrors,
                   installedSkills, cur, results, diskVars, log>>

\* try { downloadGitHubPackage; extractGitHubPackage } catch { print }: a
\* failed download or extraction leaves the store alone and goes to the next
GhResolve ==
    /\ pc = "i_gh_resolve"
    /\ idx <= Len(missingDeps)
    /\ \E f \in {"none", "http", "tar"} :
         LET dep == missingDeps[idx]
         IN /\ IF f = "none" THEN faults' = faults
               ELSE faults < MaxFaults /\ faults' = faults + 1
            /\ IF f = "none"
               THEN /\ cur' = [name |-> dep.name, version |-> GhCommit,
                               bytes |-> Tarball(dep.name, GhCommit), ok |-> TRUE]
                    /\ store' = StorePut(store, StoreEntry(dep.name, GhCommit, "complete"))
                    /\ pc' = "i_gh_lock"
                    /\ idx' = idx
               ELSE /\ idx' = idx + 1
                    /\ UNCHANGED <<cur, pc, store>>
            /\ log' = Append(log, <<"response", dep.name>>)
    /\ UNCHANGED <<auxVars, fsVars, envVars, resolverVars, rootDeps, validationErrors, missingDeps,
                   installedSkills, results, lockfile, manifest, temp, cache, links,
                   exitCode>>

\* addGitHubToLockfile(specifier, {version, resolved, integrity, gitCommit, gitRef})
GhLock ==
    /\ pc = "i_gh_lock"
    /\ lockfile' = addGitHubToLockfile(lockfile,
                      GitHubLockEntry(cur.name, cur.version, calculateIntegrity(cur.bytes)))
    /\ pc' = "i_gh_cache"
    /\ UNCHANGED <<auxVars, fsVars, envVars, faults, resolverVars, cmdVars, manifest, store, temp, cache,
                   links, exitCode, log>>

\* writeToCache(cacheDir, result.integrity, result.buffer); next dependency
GhCache ==
    /\ pc = "i_gh_cache"
    /\ cache' = writeToCache(cache, calculateIntegrity(cur.bytes), cur.bytes)
    /\ idx' = idx + 1
    /\ cur' = NoCur
    /\ pc' = "i_gh_resolve"
    /\ UNCHANGED <<auxVars, fsVars, envVars, faults, resolverVars, rootDeps, validationErrors, missingDeps,
                   installedSkills, results, lockfile, manifest, store, temp, links, exitCode, log>>

\* lockfile = await readLockfile(); then Phase 3 walks Object.entries(packages)
GhDone ==
    /\ pc = "i_gh_resolve"
    /\ idx > Len(missingDeps)
    /\ pc' = "i_install"
    /\ idx' = 1
    /\ UNCHANGED <<auxVars, fsVars, envVars, faults, resolverVars, rootDeps, validationErrors, missingDeps,
                   installedSkills, cur, results, diskVars, exitCode, log>>

CurEntry == LockedPackages(lockfile)[idx]

\* Phase 3, one lockfile entry: readFromCache(cacheDir, entry.integrity)
P3CacheRead ==
    /\ pc = "i_install"
    /\ idx <= Len(LockedPackages(lockfile))
    /\ cache' = CacheAfterRead(cache, CurEntry.integrity)
    /\ LET cachedTarball == readFromCache(cache, CurEntry.integrity)
       IN IF cachedTarball # <<>>
          THEN /\ cur' = [name |-> CurEntry.name, version |-> CurEntry.version,
                          bytes |-> cachedTarball, ok |-> TRUE]
               /\ pc' = "i_stage"
               /\ log' = Append(Append(log, <<"fetch", CurEntry.name>>), <<"verify", CurEntry.name>>)
          ELSE /\ cur' = [name |-> CurEntry.name, version |-> CurEntry.version,
                          bytes |-> <<>>, ok |-> TRUE]
               /\ pc' = "i_download"
               /\ log' = log
    /\ UNCHANGED <<auxVars, fsVars, envVars, faults, resolverVars, rootDeps, validationErrors, missingDeps,
                   installedSkills, idx, results, lockfile, manifest, store, temp, links, exitCode>>

\* fetch(entry.resolved); a response that is not ok prints an error and
\* continues; a fetch that rejects (no network) reaches the outer catch: exit(1)
P3Download ==
    /\ pc = "i_download"
    /\ \E f \in {"none", "http", "corrupt", "throw"} :
         /\ IF f = "none" THEN faults' = faults ELSE faults < MaxFaults /\ faults' = faults + 1
         /\ IF f = "throw"
            THEN /\ pc' = "done"
                 /\ exitCode' = 1
                 /\ UNCHANGED <<idx, cur, log>>
            ELSE IF f = "http"
            THEN /\ idx' = idx + 1
                 /\ cur' = NoCur
                 /\ pc' = "i_install"
                 /\ log' = Append(log, <<"response", cur.name>>)
                 /\ exitCode' = exitCode
            ELSE /\ cur' = [cur EXCEPT !.bytes = IF f = "corrupt" THEN Corrupt(cur.name, cur.version)
                                                 ELSE Tarball(cur.name, cur.version)]
                 /\ pc' = "i_verify"
                 /\ log' = Append(Append(log, <<"response", cur.name>>), <<"fetch", cur.name>>)
                 /\ idx' = idx
                 /\ exitCode' = exitCode
    /\ UNCHANGED <<auxVars, fsVars, envVars, resolverVars, rootDeps, validationErrors, missingDeps,
                   installedSkills, results, diskVars>>

\* if (actualIntegrity !== entry.integrity) { if (frozenLockfile) exit(1); continue }
P3Verify ==
    /\ pc = "i_verify"
    /\ IF calculateIntegrity(cur.bytes) # CurEntry.integrity
       THEN IF cmd.frozen
            THEN pc' = "done" /\ exitCode' = 1 /\ UNCHANGED <<idx, cur, log>>
            ELSE /\ pc' = "i_install" /\ idx' = idx + 1 /\ cur' = NoCur
                 /\ UNCHANGED <<exitCode, log>>
       ELSE /\ pc' = "i_cachewrite"
            /\ log' = Append(log, <<"verify", cur.name>>)
            /\ UNCHANGED <<idx, cur, exitCode>>
    /\ UNCHANGED <<auxVars, fsVars, envVars, faults, resolverVars, rootDeps, validationErrors, missingDeps,
                   installedSkills, results, diskVars>>

\* writeToCache(cacheDir, entry.integrity, tarballBuffer)
P3CacheWrite ==
    /\ pc = "i_cachewrite"
    /\ cache' = writeToCache(cache, CurEntry.integrity, cur.bytes)
    /\ pc' = "i_stage"
    /\ UNCHANGED <<auxVars, fsVars, envVars, faults, resolverVars, cmdVars, lockfile, manifest, store,
                   temp, links, exitCode, log>>

\* rm(destDir); mkdir(destDir); writeFile(tempFile, tarballBuffer)
P3Stage ==
    /\ pc = "i_stage"
    /\ store' = StorePut(store, StoreEntry(cur.name, Null, "empty"))
    /\ temp' = temp \cup {cur.name}
    /\ pc' = "i_untar"
    /\ log' = Append(log, <<"extract_begin", cur.name>>)
    /\ UNCHANGED <<auxVars, fsVars, envVars, faults, resolverVars, cmdVars, lockfile, manifest, cache,
                   links, exitCode>>

\* try { tar -xzf tempFile -C destDir --strip-components=1 }
P3Untar ==
    /\ pc = "i_untar"
    /\ \E f \in {"none", "tar"} :
         /\ IF f = "none" THEN faults' = faults ELSE faults < MaxFaults /\ faults' = faults + 1
         /\ store' = StorePut(store, StoreEntry(cur.name, cur.version,
                                                IF f = "none" THEN "complete" ELSE "partial"))
         /\ cur' = [cur EXCEPT !.ok = (f = "none")]
         /\ log' = IF f = "none" THEN Append(log, <<"extract", cur.name>>) ELSE log
    /\ pc' = "i_cleanup"
    /\ UNCHANGED <<auxVars, fsVars, envVars, resolverVars, rootDeps, validationErrors, missingDeps,
                   installedSkills, idx, results, lockfile, manifest, temp, cache, links, exitCode>>

\* finally { rm(tempFile) }; a tar error reaches the outer catch: exit(1);
\* otherwise installedSkills.push({name, sourcePath}) and the next entry
P3Cleanup ==
    /\ pc = "i_cleanup"
    /\ temp' = temp \ {cur.name}
    /\ IF cur.ok
       THEN /\ installedSkills' = Append(installedSkills, cur.name)
            /\ idx' = idx + 1
            /\ cur' = NoCur
            /\ pc' = "i_install"
            /\ exitCode' = exitCode
       ELSE /\ pc' = "done"
            /\ exitCode' = 1
            /\ UNCHANGED <<installedSkills, idx, cur>>
    /\ UNCHANGED <<auxVars, fsVars, envVars, faults, resolverVars, rootDeps, validationErrors, missingDeps,
                   results, lockfile, manifest, store, cache, links, log>>

RECURSIVE LogAll(_, _, _)
LogAll(l, step, names) ==
    IF names = <<>> THEN l ELSE LogAll(Append(l, <<step, Head(names)>>), step, Tail(names))

\* Phase 4 walks Object.entries(githubPackages)
P3Done ==
    /\ pc = "i_install"
    /\ idx > Len(LockedPackages(lockfile))
    /\ pc' = "i_gh_install"
    /\ idx' = 1
    /\ UNCHANGED <<auxVars, fsVars, envVars, faults, resolverVars, rootDeps, validationErrors, missingDeps,
                   installedSkills, cur, results, diskVars, exitCode, log>>

CurGitHub == LockedGitHub(lockfile)[idx]

\* Phase 4, one githubPackages entry: readFromCache(cacheDir, ghEntry.integrity)
P4CacheRead ==
    /\ pc = "i_gh_install"
    /\ idx <= Len(LockedGitHub(lockfile))
    /\ cache' = CacheAfterRead(cache, CurGitHub.integrity)
    /\ LET cachedTarball == readFromCache(cache, CurGitHub.integrity)
       IN IF cachedTarball # <<>>
          THEN /\ cur' = [name |-> CurGitHub.name, version |-> CurGitHub.gitCommit,
                          bytes |-> cachedTarball, ok |-> TRUE]
               /\ pc' = "i_gh_extract"
               /\ log' = Append(Append(log, <<"fetch", CurGitHub.name>>), <<"verify", CurGitHub.name>>)
          ELSE /\ cur' = [name |-> CurGitHub.name, version |-> CurGitHub.gitCommit,
                          bytes |-> <<>>, ok |-> TRUE]
               /\ pc' = "i_gh_download"
               /\ log' = log
    /\ UNCHANGED <<auxVars, fsVars, envVars, faults, resolverVars, rootDeps, validationErrors, missingDeps,
                   installedSkills, idx, results, lockfile, manifest, store, temp, links, exitCode>>

\* downloadGitHubPackage at the locked commit: an error is printed and the
\* entry skipped; if (result.integrity !== ghEntry.integrity) the entry is
\* skipped, or with --frozen-lockfile the run exits 1
P4Download ==
    /\ pc = "i_gh_download"
    /\ \E f \in {"none", "http", "corrupt", "throw"} :
         LET buffer == IF f = "corrupt" THEN Corrupt(cur.name, cur.version)
                       ELSE Tarball(cur.name, cur.version)
             responded == Append(log, <<"response", cur.name>>)
         IN /\ IF f = "none" THEN faults' = faults ELSE faults < MaxFaults /\ faults' = faults + 1
            /\ IF f \in {"http", "throw"}
               THEN /\ idx' = idx + 1 /\ cur' = NoCur /\ pc' = "i_gh_install"
                    /\ log' = IF f = "http" THEN responded ELSE log
                    /\ exitCode' = exitCode
               ELSE IF calculateIntegrity(buffer) # CurGitHub.integrity
               THEN IF cmd.frozen
                    THEN pc' = "done" /\ exitCode' = 1 /\ log' = responded /\ UNCHANGED <<idx, cur>>
                    ELSE /\ idx' = idx + 1 /\ cur' = NoCur /\ pc' = "i_gh_install"
                         /\ log' = responded /\ exitCode' = exitCode
               ELSE /\ cur' = [cur EXCEPT !.bytes = buffer]
                    /\ pc' = "i_gh_cachewrite"
                    /\ log' = Append(Append(responded, <<"fetch", cur.name>>), <<"verify", cur.name>>)
                    /\ UNCHANGED <<idx, exitCode>>
    /\ UNCHANGED <<auxVars, fsVars, envVars, resolverVars, rootDeps, validationErrors, missingDeps,
                   installedSkills, results, diskVars>>

\* writeToCache(cacheDir, ghEntry.integrity, tarballBuffer)
P4CacheWrite ==
    /\ pc = "i_gh_cachewrite"
    /\ cache' = writeToCache(cache, CurGitHub.integrity, cur.bytes)
    /\ pc' = "i_gh_extract"
    /\ UNCHANGED <<auxVars, fsVars, envVars, faults, resolverVars, cmdVars, lockfile, manifest, store,
                   temp, links, exitCode, log>>

\* try { extractGitHubPackage; installedSkills.push } catch { print }
P4Extract ==
    /\ pc = "i_gh_extract"
    /\ \E f \in {"none", "tar"} :
         /\ IF f = "none" THEN faults' = faults ELSE faults < MaxFaults /\ faults' = faults + 1
         /\ IF f = "none"
            THEN /\ store' = StorePut(store, StoreEntry(cur.name, cur.version, "complete"))
                 /\ installedSkills' = Append(installedSkills, cur.name)
                 /\ log' = Append(Append(log, <<"extract_begin", cur.name>>), <<"extract", cur.name>>)
            ELSE UNCHANGED <<store, installedSkills, log>>
    /\ idx' = idx + 1
    /\ cur' = NoCur
    /\ pc' = "i_gh_install"
    /\ UNCHANGED <<auxVars, fsVars, envVars, resolverVars, rootDeps, validationErrors, missingDeps,
                   results, lockfile, manifest, temp, cache, links, exitCode>>

\* Phase 5: if (installedSkills.length > 0 && agents[0] !== "none") createAgentSymlinks
InstallLink ==
    /\ pc = "i_gh_install"
    /\ idx > Len(LockedGitHub(lockfile))
    /\ IF installedSkills # <<>> /\ cmd.agents[1] # "none"
       THEN /\ links' = createAgentSymlinks(links, SeqToSet(installedSkills), cmd.agents)
            /\ log' = LogAll(log, "link", installedSkills)
       ELSE UNCHANGED <<links, log>>
    /\ pc' = "done"
    /\ exitCode' = 0
    /\ UNCHANGED <<auxVars, fsVars, envVars, faults, resolverVars, cmdVars, lockfile, manifest, store,
                   temp, cache>>

----------------------------------------------------------------------------
(* remove (removeRegistry)                                                 *)

\* removedFromLockfile = await removeFromLockfile(fullName)
RemoveLock ==
    /\ pc = "r_lock"
    /\ lockfile' = removeFromLockfile(lockfile, cmd.target)
    /\ cur' = [NoCur EXCEPT !.name = cmd.target,
                            !.ok = Has(LockedPackages(lockfile), cmd.target)]
    /\ pc' = "r_manifest"
    /\ UNCHANGED <<auxVars, fsVars, envVars, faults, resolverVars, rootDeps, validationErrors, missingDeps,
                   installedSkills, idx, results, manifest, store, temp, cache, links,
                   exitCode, log>>

\* removedFromManifest = await removeDependency(fullName); exit 1 if neither
RemoveManifest ==
    /\ pc = "r_manifest"
    /\ manifest' = removeDependency(manifest, cmd.target)
    /\ IF ~cur.ok /\ ~Has(getDependencies(manifest), cmd.target)
       THEN pc' = "done" /\ exitCode' = 1
       ELSE pc' = "r_links" /\ exitCode' = exitCode
    /\ UNCHANGED <<auxVars, fsVars, envVars, faults, resolverVars, cmdVars, lockfile, store, temp, cache,
                   links, log>>

\* removeAgentSymlinks(name, {agents: getAvailableAgents()})
RemoveLinks ==
    /\ pc = "r_links"
    /\ links' = {l \in links : l.name # cmd.target}
    /\ pc' = "r_store"
    /\ UNCHANGED <<auxVars, fsVars, envVars, faults, resolverVars, cmdVars, lockfile, manifest, store,
                   temp, cache, exitCode, log>>

\* rm(join(skillsDir, username, name), {recursive: true, force: true})
RemoveStore ==
    /\ pc = "r_store"
    /\ store' = {x \in store : x.name # cmd.target}
    /\ pc' = "done"
    /\ exitCode' = 0
    /\ UNCHANGED <<auxVars, fsVars, envVars, faults, resolverVars, cmdVars, lockfile, manifest, temp,
                   cache, links, log>>

----------------------------------------------------------------------------
(* Initial states: a project directory as earlier invocations left it, and *)
(* a command line.                                                         *)

RootCandidates(s) ==
    CASE s = "direct" -> {"a"}
      [] s = "diamond" -> {"a", "b"}
      [] s = "conflict" -> {"a", "b"}
      [] s = "chain" -> {"a", "b"}
      [] s = "cycle" -> {"a", "b", "c"}
      [] s = "swap" -> {"a", "b"}
      [] s = "deep" -> {"p0"}

LockCandidates(s) ==
    IF s = "deep" THEN {"p0", "p1"} ELSE {p \in Pkgs : RegHas(s, p)}

SpecRanges == {Empty, Caret(100)}

\* sequences of at most n distinct elements of S
DistinctSeqs(S, n) ==
    {sq \in UNION {[1..k -> S] : k \in 0..n} : \A i, j \in 1..Len(sq) : i # j => sq[i] # sq[j]}

\* sequences of 1..n specifiers naming distinct packages
SpecLists(s, n) ==
    {sp \in UNION {[1..k -> [name : RootCandidates(s), range : SpecRanges]] : k \in 1..n} :
        \A i, j \in 1..Len(sp) : i # j => sp[i].name # sp[j].name}

AgentChoices == {<<"claude-code">>, <<"none">>}

Command(k, sp, fr, ag, t) ==
    [kind |-> k, specs |-> sp, frozen |-> fr, agents |-> ag, target |-> t]

AddCommands(s) == {Command("add", sp, FALSE, ag, "") : sp \in SpecLists(s, MaxSpecs), ag \in AgentChoices}
InstallCommands == {Command("install", <<>>, fr, ag, "") : fr \in BOOLEAN, ag \in AgentChoices}
RemoveCommands(s) == {Command("remove", <<>>, FALSE, <<"claude-code">>, t) : t \in LockCandidates(s)}

\* the entry an earlier add wrote for package p: its highest version
LockedEntry(s, p) ==
    LET v == resolveVersion(Star, RegVersions(s, p))
    IN LockEntry(p, v, DownloadUrl(p, v), RegIntegrity(p, v), RegDeps(s, p, v))

LockfileOf(s, names, gh) ==
    IF names = <<>> /\ ~gh THEN NoFile
    ELSE writeLockfile([createEmptyLockfile EXCEPT
                            !.packages = [i \in 1..Len(names) |-> LockedEntry(s, names[i])],
                            !.githubPackages =
                                IF gh THEN <<GitHubLockEntry(GhSpec, GhCommit,
                                                calculateIntegrity(Tarball(GhSpec, GhCommit)))>>
                                ELSE <<>>])

ManifestOf(names, gh, loc) ==
    IF names = <<>> /\ ~gh /\ ~loc THEN NoFile
    ELSE [dependencies |-> [i \in 1..Len(names) |-> [name |-> names[i], range |-> Caret(100)]],
          githubDependencies |-> IF gh THEN <<[name |-> GhSpec, range |-> "HEAD"]>> ELSE <<>>,
          localDependencies |-> IF loc THEN <<[name |-> "file:../x", range |-> "file:../x"]>> ELSE <<>>]

StoreOf(file) ==
    {StoreEntry(file.packages[i].name, file.packages[i].version, "complete") :
        i \in 1..Len(LockedPackages(file))}
    \cup {StoreEntry(file.githubPackages[i].name, file.githubPackages[i].gitCommit, "complete") :
        i \in 1..Len(LockedGitHub(file))}

\* the cache an earlier install left: the tarball of every locked package,
\* or files whose content was damaged since
CacheOf(file, state) ==
    IF state = "none" THEN {}
    ELSE {CacheFile(getCacheFilePath(RegIntegrity(file.packages[i].name, file.packages[i].version)),
                    IF state = "good"
                    THEN Tarball(file.packages[i].name, file.packages[i].version)
                    ELSE Corrupt(file.packages[i].name, file.packages[i].version)) :
             i \in 1..Len(LockedPackages(file))}

CacheStates == {"none", "good", "corrupt"}

\* a lockfile whose first entry carries an integrity string that is not sha256
Tamper(file) ==
    [file EXCEPT !.packages[1].integrity =
        MalformedIntegrity(file.packages[1].name, file.packages[1].version)]

\* no pspm-lock.json on disk
NoBytes == <<[t |-> "ENOENT", v |-> <<>>]>>

\* nothing runs on its own, and the invocation is the first
AuxAtRest == tasks = <<>> /\ fsys = <<>> /\ run = 1 /\ disk1 = <<>>

StartPc(k) ==
    CASE k = "add" -> "validate" [] k = "install" -> "i_start" [] k = "remove" -> "r_lock"
      [] k = "link" -> "l_link"

InitDisk ==
    \E locked \in DistinctSeqs(LockCandidates(scenario), MaxLocked) :
    \E direct \in DistinctSeqs(RootCandidates(scenario), 1) :
    \E cached \in CacheStates :
    \E tampered \in BOOLEAN :
    \E ghLocked \in BOOLEAN :
    \E ghDep \in BOOLEAN :
    \E localDep \in BOOLEAN :
        /\ cmd.kind = "add" => (Len(locked) < MaxLocked /\ direct = <<>> /\ cached = "none")
        /\ cmd.kind = "remove" => cached = "none"
        /\ tampered => (cmd.kind = "install" /\ locked # <<>>)
        /\ (ghLocked \/ ghDep \/ localDep) =>
              (cmd.kind = "install" /\ Len(locked) <= 1 /\ cached = "none" /\ ~tampered)
        /\ lockfile = IF tampered THEN Tamper(LockfileOf(scenario, locked, ghLocked))
                      ELSE LockfileOf(scenario, locked, ghLocked)
        /\ manifest = ManifestOf(direct, ghDep, localDep)
        /\ store = StoreOf(LockfileOf(scenario, locked, ghLocked))
        /\ cache = CacheOf(LockfileOf(scenario, locked, ghLocked), cached)

\* everything of the initial state but the scenario and the command line
InitRest ==
    /\ pc = StartPc(cmd.kind)
    /\ faults = 0
    /\ queue = <<>>
    /\ rangesByPackage = <<>>
    /\ processing = {}
    /\ nodes = <<>>
    /\ errors = <<>>
    /\ conflicts = <<>>
    /\ p2idx = 1
    /\ installOrder = <<>>
    /\ success = FALSE
    /\ rootDeps = <<>>
    /\ validationErrors = 0
    /\ missingDeps = <<>>
    /\ installedSkills = <<>>
    /\ idx = 1
    /\ cur = NoCur
    /\ results = <<>>
    /\ InitDisk
    /\ temp = {}
    /\ links = {}
    /\ exitCode = -1
    /\ log = <<>>
    /\ disk0 = diskVars
    /\ lockBytes = NoBytes
    /\ writers = <<>>
    /\ AuxAtRest

Init ==
    /\ scenario \in Scenarios
    /\ cmd \in AddCommands(scenario) \cup InstallCommands \cup RemoveCommands(scenario)
    /\ InitRest

Next ==
    \/ Validate
    \/ ValidateDone
    \/ Phase1Step
    \/ Phase1Done
    \/ Phase2Step
    \/ Phase2Done
    \/ Phase3
    \/ AddFetch
    \/ AddVerify
    \/ AddStage
    \/ AddUntar
    \/ AddCleanup
    \/ AddLock
    \/ AddManifest
    \/ AddLink
    \/ AddSummary
    \/ InstallStart
    \/ P1Resolve
    \/ P1Lock
    \/ P1Cache
    \/ P1Done
    \/ GhStart
    \/ GhResolve
    \/ GhLock
    \/ GhCache
    \/ GhDone
    \/ P3CacheRead
    \/ P3Download
    \/ P3Verify
    \/ P3CacheWrite
    \/ P3Stage
    \/ P3Untar
    \/ P3Cleanup
    \/ P3Done
    \/ P4CacheRead
    \/ P4Download
    \/ P4CacheWrite
    \/ P4Extract
    \/ InstallLink
    \/ RemoveLock
    \/ RemoveManifest
    \/ RemoveLinks
    \/ RemoveStore

Spec == Init /\ [][Next]_vars

----------------------------------------------------------------------------
(* Properties                                                              *)

InstallRun == cmd.kind \in {"add", "install"}

\* resolveRecursive has returned to add
Resolved == cmd.kind = "add" /\ pc \notin {"validate", "phase1", "phase2", "phase3"} /\ rootDeps # <<>>

Occurs(step, p) == Includes(log, <<step, p>>)
Before(step1, p1, i) == \E j \in 1..(i - 1) : log[j] = <<step1, p1>>

\* every name in some entry's `dependencies` is itself a key of `packages`
DepsPresent(file) ==
    \A i \in 1..Len(LockedPackages(file)) :
        \A k \in 1..Len(file.packages[i].dependencies) :
            Has(file.packages, file.packages[i].dependencies[k].name)

\* C1: in every lockfile an operation writes, every name listed in an entry's
\* dependencies has its own entry, and an add whose resolution was aborted
\* leaves the lockfile as it was.
C1_LockfileDepsPresent ==
    [][/\ (DepsPresent(lockfile) /\ lockfile' # lockfile) => DepsPresent(lockfile')
       /\ (cmd.kind = "add" /\ pc' = "done" /\ ~success') => lockfile' = disk0[1]]_vars

\* the version whose registry metadata gives p's dependencies: the locked one
ClosureVersion(file, p) ==
    IF Has(LockedPackages(file), p) THEN Get(file.packages, p).version
    ELSE resolveVersion(Star, RegVersions(scenario, p))

DepNameSet(p, v) == {RegDeps(scenario, p, v)[k].name : k \in 1..Len(RegDeps(scenario, p, v))}

RECURSIVE RegClosure(_, _)
RegClosure(file, names) ==
    LET next == names \cup UNION {DepNameSet(p, ClosureVersion(file, p)) : p \in names}
    IN IF next = names THEN names ELSE RegClosure(file, next)

\* C2: when an add or install run completes, the keys of `packages` in the
\* lockfile are exactly the transitive closure, over the registry's
\* dependencies metadata, of the manifest's dependencies.  Stated of the runs
\* that start without a lockfile, where every entry is one the run wrote, and
\* in which no request or extraction failed.
C2_LockfileIsClosure ==
    (InstallRun /\ disk0[1] = NoFile /\ faults = 0 /\ pc = "done" /\ exitCode = 0) =>
        KeySet(LockedPackages(lockfile)) = RegClosure(lockfile, KeySet(getDependencies(manifest)))

\* the nodes of the graph that n depends on
Succ(ns, n) == {d \in SeqToSet(DepNames(Get(ns, n))) : Has(ns, d)}

RECURSIVE ReachFrom(_, _)
ReachFrom(ns, S) ==
    LET next == S \cup UNION {Succ(ns, n) : n \in S}
    IN IF next = S THEN S ELSE ReachFrom(ns, next)

\* the nodes that lie on a dependency cycle of the graph
CycleNodes(ns) == {n \in KeySet(ns) : n \in ReachFrom(ns, Succ(ns, n))}

CircularErrors == SelectSeq(errors, LAMBDA e : e.type = "circular_dependency")

\* C3: whenever the resolved graph holds a dependency cycle of length at most
\* maxDepth, resolveRecursive has recorded a circular_dependency error and its
\* result has success = false.
C3_EveryCycleReported ==
    (Resolved /\ CycleNodes(nodes) # {} /\ Cardinality(CycleNodes(nodes)) <= MAX_DEPENDENCY_DEPTH) =>
        (CircularErrors # <<>> /\ ~success)

\* the graph's cycle nodes form one simple cycle
SingleCycle(ns) ==
    /\ CycleNodes(ns) # {}
    /\ \A n \in CycleNodes(ns) : Cardinality(Succ(ns, n) \cap CycleNodes(ns)) = 1
    /\ \A n, m \in CycleNodes(ns) : m \in ReachFrom(ns, Succ(ns, n))

\* a path that closes a cycle at its last element and repeats nothing else
MinimalCyclePath(path) ==
    /\ Len(path) >= 2
    /\ Includes(SubSeq(path, 1, Len(path) - 1), path[Len(path)])
    /\ Cardinality(SeqToSet(path)) = Len(path) - 1

\* C4: for a graph with a single cycle of length at most maxDepth the error
\* list holds exactly one circular_dependency entry, whose path is the
\* minimal path containing the cycle.
C4_ExactlyOneCycleError ==
    (Resolved /\ SingleCycle(nodes) /\ Cardinality(CycleNodes(nodes)) <= MAX_DEPENDENCY_DEPTH) =>
        (Len(CircularErrors) = 1 /\ MinimalCyclePath(CircularErrors[1].path))

\* C5 as stated: every node's in-graph dependencies appear in installOrder,
\* before the node.
C5_Original ==
    Resolved =>
        \A a \in KeySet(nodes) : \A b \in Succ(nodes, a) :
            Includes(installOrder, b) /\ Includes(installOrder, a)
            /\ IndexOf(installOrder, b) < IndexOf(installOrder, a)

\* C5 (amended): for every node a that appears in installOrder, every
\* dependency b of a that is a node of the graph appears in installOrder at a
\* smaller index; when the graph has no cycle every node appears in
\* installOrder; edges to packages absent from the graph are ignored.
C5_OrderRespectsDependencies ==
    Resolved =>
        /\ \A i \in 1..Len(installOrder) : \A b \in Succ(nodes, installOrder[i]) :
              \E j \in 1..(i - 1) : installOrder[j] = b
        /\ CycleNodes(nodes) = {} => SeqToSet(installOrder) = KeySet(nodes)

C5_Witness ==
    /\ Resolved
    /\ Len(installOrder) >= 3
    /\ \E i \in 1..Len(installOrder) : Succ(nodes, installOrder[i]) # {}

CollectedRanges(name) ==
    LET ranges == Get(rangesByPackage, name).ranges
    IN [i \in 1..Len(ranges) |-> ranges[i].range]

\* C6: when resolution succeeds, every node has the version that
\* findHighestSatisfying gives for all the ranges collected for it, with that
\* version's download URL, integrity and dependencies; the diamond of the
\* spec resolves u to 1.3.0.
C6_FinalVersionSatisfiesAll ==
    (Resolved /\ success) =>
        /\ \A i \in 1..Len(nodes) :
             LET n == nodes[i]
                 final == findHighestSatisfying(CollectedRanges(n.name), RegVersions(scenario, n.name))
             IN /\ n.version = final
                /\ n.downloadUrl = DownloadUrl(n.name, final)
                /\ n.integrity = RegIntegrity(n.name, final)
                /\ n.dependencies = RegDeps(scenario, n.name, final)
        /\ (scenario = "diamond" /\ KeySet(rootDeps) = {"a", "b"}) => Get(nodes, "u").version = 130

\* C7: once the resolver has an error or a conflict, add is either still
\* resolving or has exited with status 1, and no file of the project differs
\* from what the invocation started with.
C7_ResolverErrorNoWrites ==
    (cmd.kind = "add" /\ (errors # <<>> \/ conflicts # <<>>)) =>
        /\ diskVars = disk0
        /\ pc \in {"phase1", "phase2", "phase3"} \/ (pc = "done" /\ exitCode = 1)

C7_Witness ==
    /\ cmd.kind = "add"
    /\ conflicts # <<>>
    /\ pc = "done"
    /\ disk0[1] # NoFile

\* C8: at every point of an add or install run, each lockfile entry is either
\* an entry of the lockfile the run started with or the entry of a package
\* that this run had fetched, verified and extracted.
C8_LockfileIsPrefix ==
    InstallRun =>
        \A i \in 1..Len(LockedPackages(lockfile)) :
            LET e == lockfile.packages[i]
            IN \/ Has(LockedPackages(disk0[1]), e.name) /\ Get(disk0[1].packages, e.name) = e
               \/ Occurs("fetch", e.name) /\ Occurs("verify", e.name) /\ Occurs("extract", e.name)

\* C9: for each package of an add or install run, extraction starts only
\* after verification, the lockfile entry is written only after extraction
\* completed, and links are created only once the lockfile entry exists.
C9_StepsInOrder ==
    InstallRun =>
        \A i \in 1..Len(log) :
            LET p == log[i][2]
            IN /\ log[i][1] = "verify" => Before("fetch", p, i)
               /\ log[i][1] = "extract_begin" => Before("verify", p, i)
               /\ log[i][1] = "lock" => Before("extract", p, i)
               /\ log[i][1] = "link" =>
                    (Has(LockedPackages(lockfile), p) \/ Has(LockedGitHub(lockfile), p))

\* the packages the run installs and the dependencies recorded for them
PlanDeps(p) ==
    IF cmd.kind = "add"
    THEN (IF Has(nodes, p) THEN Succ(nodes, p) ELSE {})
    ELSE (IF Has(LockedPackages(lockfile), p)
          THEN {d \in KeySet(lockfile.packages) :
                   Includes(DepNames(Get(lockfile.packages, p)), d)}
          ELSE {})

\* C10: in every add and install run, when one registry package of the run
\* depends on another, the dependency's extraction has completed before the
\* dependent's extraction begins.
C10_DependenciesExtractedFirst ==
    InstallRun =>
        \A i \in 1..Len(log) :
            log[i][1] = "extract_begin" =>
                \A b \in PlanDeps(log[i][2]) : Before("extract", b, i)

\* the registry serves these bytes for some version of some package
IsRegistryTarball(bytes) ==
    \E p \in Pkgs : \E i \in 1..Len(RegVersions(scenario, p)) :
        bytes = Tarball(p, RegVersions(scenario, p)[i])

\* the package in hand is being, or has just been, extracted
Extracting == pc \in {"stage", "untar", "cleanup", "i_stage", "i_untar", "i_cleanup"}

\* C11: in an add or install run, bytes whose integrity differs from the
\* registry's checksum for the package are rejected: they are never extracted,
\* no lockfile entry the run writes carries another integrity than the
\* registry's, and no cache file the run writes holds such bytes.
C11_MismatchRejected ==
    InstallRun =>
        /\ Extracting => calculateIntegrity(cur.bytes) = RegIntegrity(cur.name, cur.version)
        /\ \A i \in 1..Len(LockedPackages(lockfile)) :
             LET e == lockfile.packages[i]
             IN \/ Has(LockedPackages(disk0[1]), e.name) /\ Get(disk0[1].packages, e.name) = e
                \/ e.integrity = RegIntegrity(e.name, e.version)
        /\ \A x \in cache \ disk0[5] : x.bytes[1] # GhSpec => IsRegistryTarball(x.bytes)

\* decoding a cache filename sha256-<hex>.tgz back to an integrity string
IntegrityOfPath(path) == <<"sha256-", Base64(FromHex(path[2]))>>

\* every integrity string the project's files hold or the registry gives
KnownIntegrities ==
    {lockfile.packages[i].integrity : i \in 1..Len(LockedPackages(lockfile))}
    \cup {calculateIntegrity(x.bytes) : x \in cache}
    \cup UNION {{RegIntegrity(p, RegVersions(scenario, p)[i]) :
                    i \in 1..Len(RegVersions(scenario, p))} : p \in Pkgs}

C13_CacheWriteAfterVerify ==
    [][\A x \in cache' \ cache :
          /\ Occurs("verify", cur.name)
          /\ x.path = getCacheFilePath(calculateIntegrity(x.bytes))]_vars

\* C14: one call of readFromCache: a hit hands over bytes whose integrity is
\* the requested one; a stored file with another digest is deleted and the
\* call is a miss; a missing file or a malformed integrity string is a miss
\* that changes nothing; the call never ends the run.
C14_CacheReadVerified ==
    [][(pc = "i_install" /\ pc' \in {"i_stage", "i_download"}) =>
          LET integrity == CurEntry.integrity
              cachePath == getCacheFilePath(integrity)
          IN /\ pc' = "i_stage" => calculateIntegrity(cur'.bytes) = integrity
             /\ (cachePath # NoPath /\ CacheHas(cache, cachePath)
                 /\ calculateIntegrity(CacheGet(cache, cachePath).bytes) # integrity)
                   => (pc' = "i_download" /\ ~CacheHas(cache', cachePath))
             /\ (cachePath = NoPath \/ ~CacheHas(cache, cachePath))
                   => (pc' = "i_download" /\ cache' = cache)
             /\ exitCode' = exitCode]_vars

C14_Witness ==
    /\ pc = "i_download"
    /\ getCacheFilePath(CurEntry.integrity) # NoPath
    /\ CacheHas(disk0[5], getCacheFilePath(CurEntry.integrity))
    /\ ~CacheHas(cache, getCacheFilePath(CurEntry.integrity))

\* some entry of the manifest the run started with has no lockfile entry;
\* the lockfile has no section for local packages
ManifestAhead(m, l) ==
    \/ \E i \in 1..Len(getDependencies(m)) : ~Has(LockedPackages(l), getDependencies(m)[i].name)
    \/ \E i \in 1..Len(getGitHubDependencies(m)) :
           ~Has(LockedGitHub(l), getGitHubDependencies(m)[i].name)
    \/ getLocalDependencies(m) # <<>>

\* install is at, or past, a request to the registry or to GitHub
Requesting ==
    pc \in {"i_resolve", "i_lock", "i_cache", "i_download", "i_verify", "i_cachewrite",
            "i_gh_resolve", "i_gh_lock", "i_gh_cache", "i_gh_download", "i_gh_cachewrite"}

\* C15: install --frozen-lockfile on a manifest with an entry (registry,
\* GitHub or local) that has no lockfile entry makes no request, leaves every
\* file as it was, and ends with a non-zero status.
C15_FrozenMissingEntryFatal ==
    (cmd.kind = "install" /\ cmd.frozen /\ ManifestAhead(disk0[2], disk0[1])) =>
        /\ ~Requesting
        /\ diskVars = disk0
        /\ pc = "done" => exitCode # 0

\* no request of the run got an answer
NoResponse == \A i \in 1..Len(log) : log[i][1] # "response"

\* every registry and GitHub entry of the lockfile has its tarball in the
\* cache the run started with, under a matching integrity
AllCached ==
    /\ \A i \in 1..Len(LockedPackages(disk0[1])) :
          readFromCache(disk0[5], disk0[1].packages[i].integrity) # <<>>
    /\ \A i \in 1..Len(LockedGitHub(disk0[1])) :
          readFromCache(disk0[5], disk0[1].githubPackages[i].integrity) # <<>>

\* C16: an install --frozen-lockfile during which no request is answered,
\* on a manifest the lockfile covers, ends with status 0 only if every
\* lockfile entry's tarball was in the cache with matching integrity, and
\* does end with status 0 in that case when no extraction fails.
C16_FrozenOfflineNeedsCache ==
    (cmd.kind = "install" /\ cmd.frozen /\ pc = "done" /\ NoResponse
     /\ ~ManifestAhead(disk0[2], disk0[1])) =>
        /\ exitCode = 0 => AllCached
        /\ (AllCached /\ faults = 0) => exitCode = 0

\* the lockfile is out of date for the manifest: a registry dependency has no
\* entry (as when the file is missing), or its locked version is outside the
\* range the manifest asks for
Outdated(m, l) ==
    \E i \in 1..Len(getDependencies(m)) :
        LET dep == getDependencies(m)[i]
        IN \/ ~Has(LockedPackages(l), dep.name)
           \/ ~Satisfies(Get(LockedPackages(l), dep.name).version, NormalizeRange(dep.range))

\* C17: install --frozen-lockfile started on a lockfile that is missing or
\* out of date for the manifest never ends with status 0.
C17_FrozenOutdatedFatal ==
    (cmd.kind = "install" /\ cmd.frozen /\ Outdated(disk0[2], disk0[1]) /\ pc = "done") =>
        exitCode # 0

\* a package of the run failed: add recorded a failed result for it, or
\* install ended without having installed an entry of the lockfile
PackageFailed ==
    \/ cmd.kind = "add" /\ Failed(results) > 0
    \/ /\ cmd.kind = "install"
       /\ \E n \in KeySet(LockedPackages(lockfile)) \cup KeySet(LockedGitHub(lockfile)) :
             n \notin SeqToSet(installedSkills)

\* C18: an add (with one specifier or several) or an install during which a
\* package failed ends with a non-zero status, and add has then still
\* handled every package of its install order.
C18_FailureMakesExitNonZero ==
    (pc = "done" /\ PackageFailed) =>
        /\ exitCode # 0
        /\ cmd.kind = "add" => Len(results) = Len(installOrder)

-----------------------------------------------------------------------------
(* Writing pspm-lock.json: invocations racing inside addToLockfile          *)

\* JSON.stringify(normalized, null, 2) + "\n", as a sequence of tokens
Tok(t, v) == [t |-> t, v |-> v]
Serialize(doc) ==
    <<Tok("{", <<>>), Tok("lockfileVersion", <<doc.lockfileVersion>>),
      Tok("registryUrl", <<doc.registryUrl>>), Tok("packages{", <<>>)>>
    \o [i \in 1..Len(doc.packages) |-> Tok("entry", <<doc.packages[i]>>)]
    \o <<Tok("}", <<>>)>>
    \o (IF doc.githubPackages = <<>> THEN <<>>
        ELSE <<Tok("githubPackages{", <<>>)>>
             \o [i \in 1..Len(doc.githubPackages) |-> Tok("entry", <<doc.githubPackages[i]>>)]
             \o <<Tok("}", <<>>)>>)
    \o <<Tok("}\n", <<>>)>>

\* the token closing "packages", 0 when there is none
PackagesEnd(b) ==
    IF \E k \in 5..Len(b) : b[k].t = "}"
    THEN CHOOSE k \in 5..Len(b) : b[k].t = "}" /\ \A j \in 5..(k - 1) : b[j].t # "}"
    ELSE 0

\* JSON.parse accepts the content
WellFormed(b) ==
    /\ Len(b) >= 6
    /\ b[1].t = "{" /\ b[2].t = "lockfileVersion" /\ b[3].t = "registryUrl"
    /\ b[4].t \in {"packages{", "skills{"} /\ b[Len(b)].t = "}\n"
    /\ LET k == PackagesEnd(b)
       IN /\ k # 0
          /\ \A j \in 5..(k - 1) : b[j].t = "entry"
          /\ \/ k = Len(b) - 1
             \/ /\ k + 3 <= Len(b) - 1
                /\ b[k + 1].t = "githubPackages{"
                /\ b[Len(b) - 1].t = "}"
                /\ \A j \in (k + 2)..(Len(b) - 2) : b[j].t = "entry"

\* JSON.parse(content) of a well-formed content; a v1 file has `skills`
\* where later versions have `packages`
Parse(b) ==
    LET k == PackagesEnd(b)
    IN IF b[4].t = "skills{"
       THEN [lockfileVersion |-> b[2].v[1],
             registryUrl |-> b[3].v[1],
             skills |-> [i \in 1..(k - 5) |-> b[4 + i].v[1]]]
       ELSE [lockfileVersion |-> b[2].v[1],
             registryUrl |-> b[3].v[1],
             packages |-> [i \in 1..(k - 5) |-> b[4 + i].v[1]],
             githubPackages |-> IF k = Len(b) - 1 THEN <<>>
                                ELSE [i \in 1..(Len(b) - k - 3) |-> b[k + 1 + i].v[1]]]

\* an upgrade that forgets the entries of the v1 file
Upgrade_DropsSkills(doc) ==
    IF doc.lockfileVersion = 1 /\ "skills" \in DOMAIN doc /\ "packages" \notin DOMAIN doc
    THEN [lockfileVersion |-> 2, registryUrl |-> doc.registryUrl, packages |-> <<>>,
          githubPackages |-> <<>>, skills |-> doc.skills]
    ELSE doc

\* readLockfile: v1 -> v2 in memory, { ...lockfile, lockfileVersion: 2,
\* packages: lockfile.skills }
Upgrade(doc) ==
    IF doc.lockfileVersion = 1 /\ "skills" \in DOMAIN doc /\ "packages" \notin DOMAIN doc
    THEN [lockfileVersion |-> 2, registryUrl |-> doc.registryUrl, packages |-> doc.skills,
          githubPackages |-> <<>>, skills |-> doc.skills]
    ELSE doc

\* the catch of readLockfile: the legacy skill-lock.json, if it parses
ReadLegacy(legacy) ==
    IF legacy = NoBytes \/ ~WellFormed(legacy) THEN NoFile
    ELSE LET old == Parse(legacy)
         IN [lockfileVersion |-> 2, registryUrl |-> old.registryUrl,
             packages |-> IF "skills" \in DOMAIN old THEN old.skills ELSE <<>>,
             githubPackages |-> <<>>]

\* readLockfile on the bytes of pspm-lock.json and of skill-lock.json
readLockfileAt(b, legacy) ==
    IF b = NoBytes \/ ~WellFormed(b) THEN ReadLegacy(legacy) ELSE Upgrade(Parse(b))

\* readLockfile in a project without skill-lock.json
readLockfile(b) == readLockfileAt(b, NoBytes)

\* write(fd, buffer) at position 0 of a file that holds b
WriteAt0(b, buffer) ==
    IF Len(buffer) >= Len(b) THEN buffer
    ELSE buffer \o SubSeq(b, Len(buffer) + 1, Len(b))

\* addToLockfile touches no other state of a command
CommandUnchanged ==
    UNCHANGED <<envVars, pc, faults, resolverVars, cmdVars, diskVars, exitCode, log, auxVars>>

Procs == {"w1", "w2"}
WriteScenario == "diamond"
WriterNames == {"a", "b"}

\* what pspm-lock.json holds when the invocations start
InitialFiles ==
    {NoBytes} \cup {Serialize(LockfileOf(WriteScenario, names, FALSE)) :
                        names \in DistinctSeqs({"u"}, 1) \ {<<>>}}

\* addToLockfile: lockfile = (await readLockfile()) ?? createEmptyLockfile();
\* packages[fullName] = entry; then writeLockfile serialises the document
LockRead(w) ==
    /\ writers[w].pc = "read"
    /\ writers' = [writers EXCEPT ![w].pc = "open",
                                  ![w].buffer = Serialize(addToLockfile(readLockfile(lockBytes),
                                                    LockedEntry(WriteScenario, writers[w].fullName)))]
    /\ UNCHANGED lockBytes
    /\ CommandUnchanged

\* writeFile(lockfilePath, ...) opens the path with flag "w": the file is
\* created or truncated
LockOpen(w) ==
    /\ writers[w].pc = "open"
    /\ lockBytes' = <<>>
    /\ writers' = [writers EXCEPT ![w].pc = "write"]
    /\ CommandUnchanged

\* writeFile then writes the buffer from position 0 of its own descriptor
LockWrite(w) ==
    /\ writers[w].pc = "write"
    /\ lockBytes' = WriteAt0(IF lockBytes = NoBytes THEN <<>> ELSE lockBytes, writers[w].buffer)
    /\ writers' = [writers EXCEPT ![w].pc = "done"]
    /\ CommandUnchanged

\* the process dies inside writeLockfile
LockCrash(w) ==
    /\ writers[w].pc \in {"open", "write"}
    /\ writers' = [writers EXCEPT ![w].pc = "crashed"]
    /\ UNCHANGED lockBytes
    /\ CommandUnchanged

\* every variable of a command is at rest while only addToLockfile runs
CommandAtRest ==
    /\ scenario = WriteScenario
    /\ cmd = [kind |-> "add", specs |-> <<>>, agents |-> <<"none">>, frozen |-> FALSE,
              target |-> ""]
    /\ pc = "lock"
    /\ faults = 0
    /\ queue = <<>> /\ rangesByPackage = <<>> /\ processing = {} /\ nodes = <<>>
    /\ errors = <<>> /\ conflicts = <<>> /\ p2idx = 1 /\ installOrder = <<>>
    /\ success = TRUE
    /\ rootDeps = <<>> /\ validationErrors = 0 /\ missingDeps = <<>>
    /\ installedSkills = <<>> /\ idx = 1 /\ cur = NoCur /\ results = <<>>
    /\ lockfile = NoFile /\ manifest = NoFile /\ store = {} /\ temp = {}
    /\ links = {}
    /\ exitCode = -1 /\ log = <<>> /\ disk0 = diskVars

LockInit ==
    /\ cache = {}
    /\ CommandAtRest
    /\ AuxAtRest
    /\ lockBytes \in InitialFiles
    /\ writers \in [Procs -> {[pc |-> "read", fullName |-> n, buffer |-> <<>>] : n \in WriterNames}]

LockNext ==
    \/ \E w \in Procs : LockRead(w)
    \/ \E w \in Procs : LockOpen(w)
    \/ \E w \in Procs : LockWrite(w)
    \/ \E w \in Procs : LockCrash(w)

LockSpec == LockInit /\ [][LockNext]_vars

\* C19: at every instant pspm-lock.json is absent or holds a complete
\* serialisation of a lockfile document, whatever step of a write an
\* invocation is at or crashed at.
C19_LockfileNeverPartial ==
    lockBytes = NoBytes \/ WellFormed(lockBytes)

\* C20: once two racing invocations have both finished addToLockfile,
\* pspm-lock.json is exactly the document one of them wrote.
C20_RaceLeavesOneDocument ==
    (\A w \in Procs : writers[w].pc = "done") =>
        \E w \in Procs : lockBytes = writers[w].buffer

-----------------------------------------------------------------------------
(* The cache directory under concurrent readFromCache and writeToCache      *)

\* the key every task works on, and the bytes a call site hands to
\* writeToCache: Phase 3 hands over verified bytes, Phase 1 whatever arrived
CacheKey == RegIntegrity("a", 100)
CacheTasks == {"t1", "t2"}
CacheTaskKinds ==
    {[kind |-> "read", pc |-> "read", data |-> <<>>, result |-> <<>>],
     [kind |-> "write", pc |-> "open", data |-> Tarball("a", 100), result |-> <<>>],
     [kind |-> "write1", pc |-> "open", data |-> Tarball("a", 100), result |-> <<>>],
     [kind |-> "write1", pc |-> "open", data |-> Corrupt("a", 100), result |-> <<>>]}

CachePath == getCacheFilePath(CacheKey)

\* const data = await readFile(cachePath); a missing file ends in the catch
CacheReadFile(t) ==
    /\ tasks[t].pc = "read"
    /\ tasks' = IF CacheHas(cache, CachePath)
                THEN [tasks EXCEPT ![t].pc = "check", ![t].data = <<CacheGet(cache, CachePath).bytes>>]
                ELSE [tasks EXCEPT ![t].pc = "done"]
    /\ UNCHANGED cache

\* if (actualIntegrity !== integrity) { rm; return null }  return data
CacheCheck(t) ==
    /\ tasks[t].pc = "check"
    /\ tasks' = IF calculateIntegrity(tasks[t].data[1]) # CacheKey
                THEN [tasks EXCEPT ![t].pc = "rm"]
                ELSE [tasks EXCEPT ![t].pc = "done", ![t].result = tasks[t].data]
    /\ UNCHANGED cache

\* await rm(cachePath, { force: true })
CacheRm(t) ==
    /\ tasks[t].pc = "rm"
    /\ cache' = {x \in cache : x.path # CachePath}
    /\ tasks' = [tasks EXCEPT ![t].pc = "done"]

\* writeFile(cachePath, data) opens the path: created or truncated
CacheOpen(t) ==
    /\ tasks[t].pc = "open"
    /\ cache' = {x \in cache : x.path # CachePath} \cup {CacheFile(CachePath, <<>>)}
    /\ tasks' = [tasks EXCEPT ![t].pc = "write"]

\* and then writes the buffer
CacheWrite(t) ==
    /\ tasks[t].pc = "write"
    /\ cache' = writeToCache(cache, CacheKey, tasks[t].data)
    /\ tasks' = [tasks EXCEPT ![t].pc = "done"]

CacheRest ==
    UNCHANGED <<envVars, pc, faults, resolverVars, cmdVars, lockfile, manifest, store, temp,
                links, exitCode, log, fsVars, fsys, run, disk1>>

CacheInit ==
    /\ cache \in {{}, {CacheFile(CachePath, Tarball("a", 100))}}
    /\ CommandAtRest
    /\ lockBytes = NoBytes /\ writers = <<>>
    /\ fsys = <<>> /\ run = 1 /\ disk1 = <<>>
    /\ tasks \in [CacheTasks -> CacheTaskKinds]

CacheNext ==
    \/ \E t \in CacheTasks : CacheReadFile(t) /\ CacheRest
    \/ \E t \in CacheTasks : CacheCheck(t) /\ CacheRest
    \/ \E t \in CacheTasks : CacheRm(t) /\ CacheRest
    \/ \E t \in CacheTasks : CacheOpen(t) /\ CacheRest
    \/ \E t \in CacheTasks : CacheWrite(t) /\ CacheRest

CacheSpec == CacheInit /\ [][CacheNext]_vars

\* the file of the cache key holds the bytes the key names
CacheEntryGood(c) ==
    CacheHas(c, CachePath) /\ calculateIntegrity(CacheGet(c, CachePath).bytes) = CacheKey

\* C21: with readers and writers of one cache key running concurrently, a
\* reader never returns bytes that fail verification, no step makes a
\* correctly written entry disappear, and the writers of the key all write
\* the same bytes.
C21_CacheSafeUnderConcurrency ==
    [][/\ \A t \in CacheTasks :
            tasks[t].result # <<>> => calculateIntegrity(tasks[t].result[1]) = CacheKey
       /\ CacheEntryGood(cache) => CacheHas(cache', CachePath)
       /\ \A t, u \in CacheTasks :
            (tasks[t].kind # "read" /\ tasks[u].kind # "read") => tasks[t].data = tasks[u].data]_vars

-----------------------------------------------------------------------------
(* install run twice on the same project                                    *)

\* the steps of installFromLockfile
InstallNext ==
    \/ InstallStart
    \/ P1Resolve
    \/ P1Lock
    \/ P1Cache
    \/ P1Done
    \/ GhStart
    \/ GhResolve
    \/ GhLock
    \/ GhCache
    \/ GhDone
    \/ P3CacheRead
    \/ P3Download
    \/ P3Verify
    \/ P3CacheWrite
    \/ P3Stage
    \/ P3Untar
    \/ P3Cleanup
    \/ P3Done
    \/ P4CacheRead
    \/ P4Download
    \/ P4CacheWrite
    \/ P4Extract
    \/ InstallLink

\* the same command is started again on the files the first run left
Rerun ==
    /\ cmd.kind = "install"
    /\ pc = "done"
    /\ exitCode = 0
    /\ run = 1
    /\ run' = 2
    /\ disk1' = disk0
    /\ disk0' = diskVars
    /\ pc' = StartPc(cmd.kind)
    /\ missingDeps' = <<>>
    /\ installedSkills' = <<>>
    /\ idx' = 1
    /\ cur' = NoCur
    /\ exitCode' = -1
    /\ log' = <<>>
    /\ UNCHANGED <<scenario, cmd, faults, resolverVars, rootDeps, validationErrors, results,
                   diskVars, fsVars, tasks, fsys>>

RerunInit == Init /\ cmd.kind = "install"

RerunSpec == RerunInit /\ [][InstallNext \/ Rerun]_vars

\* C22: a second install on an unchanged manifest, with no failure injected
\* in either run, ends with the lockfile, the store, the cache and the agent
\* links exactly as the first run left them.
C22_InstallIdempotent ==
    (run = 2 /\ pc = "done" /\ faults = 0) =>
        /\ lockfile = disk0[1]
        /\ store = disk0[3]
        /\ cache = disk0[5]
        /\ links = disk0[6]

\* a second run has ended after a first run that changed the project
C22_Witness ==
    /\ run = 2 /\ pc = "done" /\ faults = 0 /\ exitCode = 0
    /\ disk0 # disk1
    /\ installedSkills # <<>>

-----------------------------------------------------------------------------
(* writeLockfile and readLockfile applied to one document                   *)

\* a localPackages entry, as installLocalPackage builds it
LocalSpec == "file:../x"
LocalLockEntry(specifier) ==
    [name |-> specifier, version |-> "local", path |-> "../x", resolvedPath |-> "/abs/x"]

\* the documents handed to writeLockfile: up to two registry entries, with
\* or without GitHub and local sections
CodecDocs ==
    {[lockfileVersion |-> 4, registryUrl |-> RegistryUrl,
      packages |-> [i \in 1..Len(names) |-> LockedEntry(WriteScenario, names[i])],
      githubPackages |-> IF gh THEN <<GitHubLockEntry(GhSpec, GhCommit,
                                          calculateIntegrity(Tarball(GhSpec, GhCommit)))>>
                         ELSE <<>>,
      localPackages |-> IF loc THEN <<LocalLockEntry(LocalSpec)>> ELSE <<>>] :
        names \in DistinctSeqs({"a", "b", "u"}, 2), gh \in BOOLEAN, loc \in BOOLEAN}

\* a v1 lockfile as old releases wrote it: `skills`, entries without
\* dependencies
LegacyPath == "skill-lock.json"
SerializeV1(skills) ==
    <<Tok("{", <<>>), Tok("lockfileVersion", <<1>>), Tok("registryUrl", <<RegistryUrl>>),
      Tok("skills{", <<>>)>>
    \o [i \in 1..Len(skills) |-> Tok("entry", <<skills[i]>>)]
    \o <<Tok("}", <<>>), Tok("}\n", <<>>)>>
LegacySkills ==
    {[i \in 1..Len(names) |-> [LockedEntry(WriteScenario, names[i]) EXCEPT !.dependencies = <<>>]] :
        names \in DistinctSeqs({"a", "b", "u"}, 2)}

\* the bytes of skill-lock.json, NoBytes when there is none
LegacyBytes(fs) == IF LegacyPath \in DOMAIN fs THEN fs[LegacyPath] ELSE NoBytes

\* migrateLockfileIfNeeded: with a legacy file and no pspm-lock.json, writes
\* { lockfileVersion: 2, registryUrl, packages: skills ?? {} }; the legacy
\* file stays
migrateLockfileIfNeeded(b, legacy) ==
    IF legacy = NoBytes \/ b # NoBytes \/ ~WellFormed(legacy) THEN b
    ELSE LET old == Parse(legacy)
         IN Serialize([lockfileVersion |-> 2, registryUrl |-> old.registryUrl,
                       packages |-> IF "skills" \in DOMAIN old THEN old.skills ELSE <<>>,
                       githubPackages |-> <<>>])

\* the localPackages section of a document that was read
LocalPackages(doc) == IF "localPackages" \in DOMAIN doc THEN doc.localPackages ELSE <<>>

CodecRest ==
    UNCHANGED <<envVars, pc, faults, resolverVars, cmdVars, diskVars, exitCode, log,
                writers, fsys, run, disk1>>

\* await writeLockfile(doc)
CodecWrite ==
    /\ tasks.pc = "write"
    /\ lockBytes' = Serialize(writeLockfile(tasks.doc))
    /\ tasks' = [tasks EXCEPT !.pc = "read"]
    /\ CodecRest

\* await readLockfile()
CodecRead ==
    /\ tasks.pc = "read"
    /\ tasks' = [tasks EXCEPT !.pc = "done",
                              !.back = readLockfileAt(lockBytes, LegacyBytes(fsys))]
    /\ UNCHANGED lockBytes
    /\ CodecRest

\* install starts with migrateLockfileIfNeeded(), the other commands do not
CodecMigrate ==
    /\ tasks.pc = "legacy"
    /\ \E migrate \in BOOLEAN :
         lockBytes' = IF migrate THEN migrateLockfileIfNeeded(lockBytes, LegacyBytes(fsys))
                      ELSE lockBytes
    /\ tasks' = [tasks EXCEPT !.pc = "upgrade"]
    /\ UNCHANGED <<envVars, pc, faults, resolverVars, cmdVars, diskVars, exitCode, log,
                   writers, fsys, run, disk1>>

\* the first readLockfile() of a project that holds a v1 lockfile
CodecUpgrade ==
    /\ tasks.pc = "upgrade"
    /\ tasks' = [tasks EXCEPT !.pc = "reread",
                              !.first = readLockfileAt(lockBytes, LegacyBytes(fsys))]
    /\ UNCHANGED lockBytes
    /\ CodecRest

\* a second readLockfile(); its result is what the next write is given
CodecReread ==
    /\ tasks.pc = "reread"
    /\ tasks' = [tasks EXCEPT !.pc = "write",
                              !.doc = readLockfileAt(lockBytes, LegacyBytes(fsys))]
    /\ UNCHANGED lockBytes
    /\ CodecRest

CodecInit ==
    /\ cache = {}
    /\ CommandAtRest
    /\ writers = <<>>
    /\ run = 1 /\ disk1 = <<>>
    /\ \/ /\ lockBytes = NoBytes
          /\ fsys = <<>>
          /\ tasks \in {[pc |-> "write", doc |-> d, back |-> NoFile, first |-> NoFile,
                          skills |-> <<>>] : d \in CodecDocs}
       \/ \E sk \in LegacySkills : \E renamed \in BOOLEAN :
             /\ lockBytes = IF renamed THEN SerializeV1(sk) ELSE NoBytes
             /\ fsys = IF renamed THEN <<>> ELSE (LegacyPath :> SerializeV1(sk))
             /\ tasks = [pc |-> "legacy", doc |-> NoFile, back |-> NoFile, first |-> NoFile,
                         skills |-> sk]

CodecNext ==
    \/ CodecMigrate
    \/ CodecUpgrade
    \/ CodecReread
    \/ CodecWrite
    \/ CodecRead

CodecSpec == CodecInit /\ [][CodecNext]_vars

\* C23: a document written by writeLockfile and read back by readLockfile
\* has the entries that were passed to the write in packages, in
\* githubPackages and in localPackages.
C23_LockfileRoundTrip ==
    tasks.pc = "done" =>
        /\ tasks.back # NoFile
        /\ tasks.back.packages = tasks.doc.packages
        /\ tasks.back.githubPackages = tasks.doc.githubPackages
        /\ LocalPackages(tasks.back) = LocalPackages(tasks.doc)

\* the least version in 2..5 whose format has every populated section
LeastVersion(doc) ==
    IF LocalPackages(doc) # <<>> THEN 5
    ELSE IF \E i \in 1..Len(doc.packages) : doc.packages[i].dependencies # <<>> THEN 4
    ELSE IF doc.githubPackages # <<>> THEN 3
    ELSE 2

\* C24: the lockfileVersion writeLockfile emits is the least version in
\* 2..5 that carries every populated section of the document.
C24_LeastLockfileVersion ==
    tasks.pc \in {"read", "done"} => lockBytes[2].v[1] = LeastVersion(tasks.doc)

\* C25: the first read of a v1 lockfile (skill-lock.json, or `skills` at
\* lockfileVersion 1) has the legacy skills as its packages; reading again
\* gives the same document, the upgrade leaves an upgraded document as it
\* is, and reading after a write gives the same packages.
C25_LegacyUpgradeIdempotent ==
    tasks.skills # <<>> =>
        /\ tasks.pc \in {"reread", "write", "read", "done"} =>
                /\ tasks.first # NoFile
                /\ tasks.first.packages = tasks.skills
                /\ Upgrade(tasks.first) = tasks.first
        /\ tasks.pc \in {"write", "read", "done"} => tasks.doc = tasks.first
        /\ tasks.pc = "done" =>
                /\ tasks.back # NoFile
                /\ tasks.back.packages = tasks.skills
                /\ tasks.back.githubPackages = <<>>
                /\ Upgrade(tasks.back) = tasks.back

\* a v1 lockfile with entries has been read, written and read back
C25_Witness ==
    /\ tasks.skills # <<>>
    /\ tasks.pc = "done"
    /\ tasks.first.lockfileVersion = 2
    /\ tasks.back.lockfileVersion = 3

-----------------------------------------------------------------------------
(* The linker on paths: createAgentSymlinks and createSymlink               *)

ProjectRoot == <<"/", "home", "proj">>

\* the store paths, relative to the project root
getRegistrySkillPath(username, skillName) == <<".pspm", "skills", username, skillName>>
getGitHubSkillPath(owner, repo) == <<".pspm", "skills", "_github", owner, repo>>
getLocalSkillPath(skillName) == <<".pspm", "skills", "_local", skillName>>

SkillInfo(n, sourcePath) == [name |-> n, sourcePath |-> sourcePath]

\* directory entries as lstat and readlink see them
Symlink(target) == [type |-> "symlink", target |-> target]
RegularFile == [type |-> "file", target |-> <<>>]
Directory == [type |-> "dir", target |-> <<>>]
SetEntry(fs, path, e) == [q \in DOMAIN fs \cup {path} |-> IF q = path THEN e ELSE fs[q]]

\* a linker that decides on the entry the link resolves to (stat): a link
\* in place is taken for the directory it points at
createSymlink_Follows(fs, symlinkPath, target) ==
    IF symlinkPath \in DOMAIN fs
    THEN [fs |-> fs, warned |-> TRUE]
    ELSE [fs |-> SetEntry(fs, symlinkPath, Symlink(target)), warned |-> FALSE]

\* createSymlink: lstat; a symlink with the target is kept, one with another
\* target is removed and recreated; any other entry is kept with a warning
createSymlink(fs, symlinkPath, target) ==
    IF symlinkPath \in DOMAIN fs
    THEN IF fs[symlinkPath].type = "symlink"
         THEN IF fs[symlinkPath].target = target
              THEN [fs |-> fs, warned |-> FALSE]
              ELSE [fs |-> SetEntry(fs, symlinkPath, Symlink(target)), warned |-> FALSE]
         ELSE [fs |-> fs, warned |-> TRUE]
    ELSE [fs |-> SetEntry(fs, symlinkPath, Symlink(target)), warned |-> FALSE]

\* createAgentSymlinks: where the link of a skill goes for an agent, and the
\* relative target it is given
AgentSkillsDir(agent, overrides) == join(ProjectRoot, resolveAgentConfig(agent, overrides))
SymlinkPath(agent, overrides, skill) == join(AgentSkillsDir(agent, overrides), <<skill.name>>)
TargetPath(skill) == join(ProjectRoot, skill.sourcePath)
RelativeTarget(agent, overrides, skill) ==
    relative(dirname(SymlinkPath(agent, overrides, skill)), TargetPath(skill))

\* the skills handed to the linker, the agent setups, and what may occupy a
\* link path beforehand
LinkSkills ==
    {SkillInfo("a", getRegistrySkillPath("alice", "a")),
     SkillInfo("r", getGitHubSkillPath("o", "r")),
     SkillInfo("x", getLocalSkillPath("x"))}
LinkOverrides ==
    {<<>>, [n \in {"claude-code"} |-> <<"skills">>], [n \in {"mine"} |-> <<"a", "b", "c">>],
     [n \in {"mine"} |-> <<"..", "shared">>]}
LinkAgents == {"claude-code", "mine"}
EntryKinds == {"absent", "file", "dir", "same", "other", "abs"}
EntryOf(kind, agent, overrides, skill) ==
    CASE kind = "file" -> RegularFile
      [] kind = "dir" -> Directory
      [] kind = "same" -> Symlink(RelativeTarget(agent, overrides, skill))
      [] kind = "other" -> Symlink(<<"..", "elsewhere">>)
      [] kind = "abs" -> Symlink(TargetPath(skill))

LinkRest ==
    UNCHANGED <<envVars, pc, faults, resolverVars, cmdVars, diskVars, exitCode, log,
                fsVars, run, disk1>>

\* one turn of the loop over skills for the agent: an unknown agent is
\* skipped with a warning, otherwise createSymlink(symlinkPath, relativeTarget)
LinkStep ==
    /\ tasks.pc = "run"
    /\ tasks.i <= Len(tasks.skills)
    /\ IF resolveAgentConfig(tasks.agent, tasks.overrides) = NoConfig
       THEN /\ tasks' = [tasks EXCEPT !.i = Len(tasks.skills) + 1]
            /\ fsys' = fsys
       ELSE LET skill == tasks.skills[tasks.i]
                symlinkPath == SymlinkPath(tasks.agent, tasks.overrides, skill)
                r == createSymlink(fsys, symlinkPath,
                                   RelativeTarget(tasks.agent, tasks.overrides, skill))
            IN /\ fsys' = r.fs
               /\ tasks' = [tasks EXCEPT !.i = tasks.i + 1,
                                         !.warned = IF r.warned THEN tasks.warned \cup {symlinkPath}
                                                    ELSE tasks.warned]
    /\ LinkRest

\* the linker is run a second time on what the first run left
LinkAgain ==
    /\ tasks.pc = "run"
    /\ tasks.i > Len(tasks.skills)
    /\ tasks.round = 1
    /\ tasks' = [tasks EXCEPT !.round = 2, !.i = 1, !.fs1 = fsys]
    /\ UNCHANGED fsys
    /\ LinkRest

LinkFinish ==
    /\ tasks.pc = "run"
    /\ tasks.i > Len(tasks.skills)
    /\ tasks.round = 2
    /\ tasks' = [tasks EXCEPT !.pc = "done"]
    /\ UNCHANGED fsys
    /\ LinkRest

LinkInit ==
    /\ cache = {}
    /\ CommandAtRest
    /\ lockBytes = NoBytes /\ writers = <<>>
    /\ run = 1 /\ disk1 = <<>>
    /\ \E agent \in LinkAgents : \E overrides \in LinkOverrides :
       \E skills \in DistinctSeqs(LinkSkills, 2) \ {<<>>} :
       \E kinds \in [1..Len(skills) -> EntryKinds] :
         /\ fsys = IF resolveAgentConfig(agent, overrides) = NoConfig THEN <<>>
                   ELSE [q \in {SymlinkPath(agent, overrides, skills[j]) :
                                    j \in {k \in 1..Len(skills) : kinds[k] # "absent"}} |->
                            LET j == CHOOSE k \in 1..Len(skills) :
                                         SymlinkPath(agent, overrides, skills[k]) = q
                            IN EntryOf(kinds[j], agent, overrides, skills[j])]
         /\ tasks = [pc |-> "run", agent |-> agent, overrides |-> overrides, skills |-> skills,
                     i |-> 1, round |-> 1, warned |-> {}, fs0 |-> fsys, fs1 |-> <<>>]

LinkNext ==
    \/ LinkStep
    \/ LinkAgain
    \/ LinkFinish

LinkSpec == LinkInit /\ [][LinkNext]_vars

\* the skills the linker has reconciled so far in its first run (all of
\* them from the second run on)
Reconciled ==
    IF resolveAgentConfig(tasks.agent, tasks.overrides) = NoConfig THEN {}
    ELSE {tasks.skills[j] : j \in 1..(IF tasks.round = 1 THEN tasks.i - 1 ELSE Len(tasks.skills))}

\* C26: once the linker has reconciled a link path, a path that held nothing
\* or a symlink (of any target) holds a symlink whose stored target is the
\* desired one, a path that held a regular file or a directory holds it
\* unchanged and was warned about, and a second run of the linker changes
\* nothing.
C26_LinkReconciled ==
    /\ \A skill \in Reconciled :
          LET q == SymlinkPath(tasks.agent, tasks.overrides, skill)
              desired == RelativeTarget(tasks.agent, tasks.overrides, skill)
          IN IF q \in DOMAIN tasks.fs0 /\ tasks.fs0[q].type # "symlink"
             THEN q \in DOMAIN fsys /\ fsys[q] = tasks.fs0[q] /\ q \in tasks.warned
             ELSE q \in DOMAIN fsys /\ fsys[q] = Symlink(desired) /\ q \notin tasks.warned
    /\ tasks.round = 2 => fsys = tasks.fs1

\* the linker replaced a symlink with another target and was run twice
C26_Witness ==
    /\ tasks.pc = "done"
    /\ \E skill \in Reconciled :
          LET q == SymlinkPath(tasks.agent, tasks.overrides, skill)
          IN /\ q \in DOMAIN tasks.fs0
             /\ tasks.fs0[q].type = "symlink"
             /\ tasks.fs0[q] # fsys[q]
    /\ tasks.warned # {}

----------------------------------------------------------------------------
(* install and link with any agent list: which lockfile entries end up     *)
(* linked.                                                                 *)

\* parseAgentArg: the comma-separated --agent value, "none" alone, or all
AgentLists ==
    {<<"claude-code">>, <<"none">>, <<"none", "claude-code">>, <<"claude-code", "cursor">>,
     <<"claude-code", "nobody">>}

LinkCommands == {Command(k, <<>>, FALSE, ag, "") : k \in {"install", "link"}, ag \in AgentLists}

\* link: the registry and the GitHub entries of the lockfile, linked for the
\* selected agents; nothing for the sole agent "none" or an empty lockfile
link ==
    /\ pc = "l_link"
    /\ LET skills == KeySet(LockedPackages(lockfile)) \cup KeySet(LockedGitHub(lockfile))
       IN IF (Len(cmd.agents) = 1 /\ cmd.agents[1] = "none") \/ skills = {}
          THEN UNCHANGED <<links, log>>
          ELSE /\ links' = createAgentSymlinks(links, skills, cmd.agents)
               /\ log' = Append(log, <<"link", "all">>)
    /\ pc' = "done"
    /\ exitCode' = 0
    /\ UNCHANGED <<auxVars, fsVars, envVars, faults, resolverVars, rootDeps, validationErrors,
                   missingDeps, installedSkills, idx, cur, results, lockfile, manifest, store,
                   temp, cache>>

RelinkInit ==
    /\ scenario \in Scenarios
    /\ cmd \in LinkCommands
    /\ InitRest

RelinkSpec == RelinkInit /\ [][InstallNext \/ link]_vars

\* C28: when install or link has completed, with no failure injected and an
\* agent list other than the sole "none", every registry and GitHub entry of
\* the lockfile has a link under each selected known agent.
C28_EveryEntryLinked ==
    (/\ pc = "done" /\ exitCode = 0 /\ faults = 0
     /\ cmd.kind \in {"install", "link"}
     /\ cmd.agents # <<"none">>) =>
        WantedLinks(KeySet(LockedPackages(lockfile)) \cup KeySet(LockedGitHub(lockfile)),
                    cmd.agents) \subseteq links

----------------------------------------------------------------------------
(* remove, on the paths of the project: what is left of a dependency.      *)

getSkillsDir == join(ProjectRoot, <<".pspm", "skills">>)
getAvailableAgents == DOMAIN BuiltInSkillsDir

\* rm(path, {recursive: true, force: true}): the entry and all below it
IsPrefix(p, q) == Len(p) <= Len(q) /\ SubSeq(q, 1, Len(p)) = p
rm(fs, path) == [q \in {x \in DOMAIN fs : ~IsPrefix(path, x)} |-> fs[q]]

\* removeAgentSymlinks: for every known agent, lstat the link path and
\* remove it if it is a symbolic link
removeAgentSymlinks(fs, skillName, agents) ==
    LET gone == {q \in {join(AgentSkillsDir(a, <<>>), <<skillName>>) :
                            a \in {x \in agents : resolveAgentConfig(x, <<>>) # NoConfig}} :
                    q \in DOMAIN fs /\ fs[q].type = "symlink"}
    IN [q \in DOMAIN fs \ gone |-> fs[q]]

removeGitHubFromLockfile(file, specifier) ==
    IF file = NoFile THEN file
    ELSE IF ~Has(file.githubPackages, specifier) THEN file
    ELSE writeLockfile([file EXCEPT !.githubPackages = Del(file.githubPackages, specifier)])

\* the lockfile without the local entry, written by writeLockfile
removeLocalFromLockfile(file, specifier) ==
    IF file = NoFile THEN file
    ELSE IF ~Has(LocalPackages(file), specifier) THEN file
    ELSE writeLockfile(file)

listLockfileLocalPackages(file) == IF file = NoFile THEN <<>> ELSE LocalPackages(file)

removeGitHubDependency(file, specifier) ==
    IF file = NoFile THEN file
    ELSE IF ~Has(file.githubDependencies, specifier) THEN file
    ELSE [file EXCEPT !.githubDependencies = Del(file.githubDependencies, specifier)]

removeLocalDependency(file, specifier) ==
    IF file = NoFile THEN file
    ELSE IF ~Has(file.localDependencies, specifier) THEN file
    ELSE [file EXCEPT !.localDependencies = Del(file.localDependencies, specifier)]

\* a project: [lockfile, manifest, fs, exit]
\* removeRegistry("@user/<username>/<name>")
removeRegistry(P, specifier) ==
    LET fullName == SubSeq(specifier, 1, 3)
        username == specifier[2]
        name == specifier[3]
    IN IF ~Has(LockedPackages(P.lockfile), fullName) /\ ~Has(getDependencies(P.manifest), fullName)
       THEN [P EXCEPT !.exit = 1]
       ELSE [lockfile |-> removeFromLockfile(P.lockfile, fullName),
             manifest |-> removeDependency(P.manifest, fullName),
             fs |-> rm(removeAgentSymlinks(P.fs, name, getAvailableAgents),
                       join(getSkillsDir, <<username, name>>)),
             exit |-> 0]

\* removeGitHub("github:<owner>/<repo>[@ref]"): the key has no ref; the
\* directory removed is join(skillsDir, "..", getGitHubSkillPath(owner, repo))
removeGitHub(P, specifier) ==
    LET owner == specifier[2]
        repo == specifier[3]
        lockfileKey == <<"github:", owner, repo>>
        destDir == join(join(getSkillsDir, <<"..">>), getGitHubSkillPath(owner, repo))
    IN IF /\ ~Has(LockedGitHub(P.lockfile), lockfileKey)
          /\ ~Has(getGitHubDependencies(P.manifest), lockfileKey)
       THEN [P EXCEPT !.exit = 1]
       ELSE [lockfile |-> removeGitHubFromLockfile(P.lockfile, lockfileKey),
             manifest |-> removeGitHubDependency(P.manifest, lockfileKey),
             fs |-> rm(removeAgentSymlinks(P.fs, repo, getAvailableAgents), destDir),
             exit |-> 0]

\* removeLocal("file:<path>"): the skill name is looked up in the lockfile
\* after the entry was removed, else it is the last segment of the path
removeLocal(P, specifier) ==
    LET path == Tail(specifier)
        lf == removeLocalFromLockfile(P.lockfile, specifier)
        localSkills == listLockfileLocalPackages(lf)
        skillName == IF Has(localSkills, specifier) THEN Get(localSkills, specifier).entryName
                     ELSE path[Len(path)]
    IN IF /\ ~Has(listLockfileLocalPackages(P.lockfile), specifier)
          /\ ~Has(getLocalDependencies(P.manifest), specifier)
       THEN [P EXCEPT !.exit = 1]
       ELSE [lockfile |-> lf,
             manifest |-> removeLocalDependency(P.manifest, specifier),
             fs |-> rm(removeAgentSymlinks(P.fs, skillName, getAvailableAgents),
                       join(getSkillsDir, <<"_local", skillName>>)),
             exit |-> 0]

\* removeByShortName: the first registry, then GitHub, then local entry of
\* the lockfile with that skill name
removeByShortName(P, shortName) ==
    LET registrySkills == LockedPackages(P.lockfile)
        githubSkills == LockedGitHub(P.lockfile)
        localSkills == listLockfileLocalPackages(P.lockfile)
    IN IF \E i \in 1..Len(registrySkills) : registrySkills[i].name[3] = shortName
       THEN removeRegistry(P, registrySkills[CHOOSE i \in 1..Len(registrySkills) :
                                                registrySkills[i].name[3] = shortName].name)
       ELSE IF \E i \in 1..Len(githubSkills) : githubSkills[i].name[3] = shortName
       THEN removeGitHub(P, githubSkills[CHOOSE i \in 1..Len(githubSkills) :
                                             githubSkills[i].name[3] = shortName].name)
       ELSE IF \E i \in 1..Len(localSkills) : localSkills[i].entryName = shortName
       THEN removeLocal(P, localSkills[CHOOSE i \in 1..Len(localSkills) :
                                           localSkills[i].entryName = shortName].name)
       ELSE [P EXCEPT !.exit = 1]

\* the dependencies a project may hold, as add leaves them: the lockfile
\* key, the skill name, and the store path under .pspm/skills
RemovableDeps ==
    {[kind |-> "registry", key |-> <<"@user", "u", "n">>, skillName |-> "n",
      storePath |-> getRegistrySkillPath("u", "n")],
     [kind |-> "github", key |-> <<"github:", "o", "r">>, skillName |-> "r",
      storePath |-> getGitHubSkillPath("o", "r")]}
    \cup {[kind |-> "local", key |-> <<"file:", "..", "d">>, skillName |-> nm,
           storePath |-> getLocalSkillPath(nm)] : nm \in {"d", "m"}}

\* the store entry and the agent links add creates for a dependency
FilesOf(dep) ==
    LET skill == SkillInfo(dep.skillName, dep.storePath)
        storeAt == join(ProjectRoot, dep.storePath)
        linkAt(a) == SymlinkPath(a, <<>>, skill)
    IN [q \in {storeAt} \cup {linkAt(a) : a \in getAvailableAgents} |->
            IF q = storeAt
            THEN IF dep.kind = "local"
                 THEN Symlink(relative(dirname(storeAt), resolve(ProjectRoot, Tail(dep.key))))
                 ELSE Directory
            ELSE Symlink(relative(dirname(q), storeAt))]

\* where a dependency is recorded: in both files, in one, or nowhere
Recorded == {"both", "lockfile", "manifest", "absent"}
InLock(deps, rec, k) ==
    LET ds == {d \in deps : d.kind = k /\ rec[k] \in {"both", "lockfile"}}
    IN IF ds = {} THEN <<>>
       ELSE LET d == CHOOSE x \in ds : TRUE
            IN <<[name |-> d.key, version |-> 100, resolved |-> <<"url">>,
                  integrity |-> <<"sha256-">>, dependencies |-> <<>>, entryName |-> d.skillName]>>
InManifest(deps, rec, k) ==
    LET ds == {d \in deps : d.kind = k /\ rec[k] \in {"both", "manifest"}}
    IN IF ds = {} THEN <<>> ELSE <<[name |-> (CHOOSE x \in ds : TRUE).key, range |-> Star]>>

\* the command lines that name a dependency: the full specifier, the full
\* specifier with a version or ref, the short name
RemoveArgs(dep) ==
    {dep.key, <<dep.skillName>>}
    \cup (IF dep.kind = "local" THEN {} ELSE {dep.key \o <<"@", "x">>})

Project == [lockfile |-> tasks.lockfile, manifest |-> tasks.manifest, fs |-> fsys, exit |-> -1]
Removed(R) ==
    /\ tasks' = [tasks EXCEPT !.pc = "done", !.lockfile = R.lockfile, !.manifest = R.manifest,
                              !.exit = R.exit]
    /\ fsys' = R.fs
    /\ LinkRest

\* remove(nameOrSpecifier): by the form of the argument
RmLocal == tasks.pc = "start" /\ tasks.arg[1] = "file:" /\ Removed(removeLocal(Project, tasks.arg))
RmGitHub == tasks.pc = "start" /\ tasks.arg[1] = "github:" /\ Removed(removeGitHub(Project, tasks.arg))
RmRegistry == tasks.pc = "start" /\ tasks.arg[1] = "@user" /\ Removed(removeRegistry(Project, tasks.arg))
RmShortName ==
    /\ tasks.pc = "start"
    /\ tasks.arg[1] \notin {"file:", "github:", "@user"}
    /\ Removed(removeByShortName(Project, tasks.arg[1]))

RemoveInit ==
    /\ cache = {}
    /\ CommandAtRest
    /\ lockBytes = NoBytes /\ writers = <<>>
    /\ run = 1 /\ disk1 = <<>>
    /\ \E localName \in {"d", "m"} : \E rec \in [{"registry", "github", "local"} -> Recorded] :
       LET deps == {d \in RemovableDeps : d.kind = "local" => d.skillName = localName}
           held == {d \in deps : rec[d.kind] # "absent"}
       IN \E dep \in deps : \E arg \in RemoveArgs(dep) :
            /\ fsys = [q \in UNION {DOMAIN FilesOf(d) : d \in held} |->
                          FilesOf(CHOOSE d \in held : q \in DOMAIN FilesOf(d))[q]]
            /\ tasks = [pc |-> "start", arg |-> arg, dep |-> dep, exit |-> -1,
                        lockfile |->
                            IF \A d \in held : rec[d.kind] = "manifest" THEN NoFile
                            ELSE [lockfileVersion |-> 3, registryUrl |-> RegistryUrl,
                                  packages |-> InLock(deps, rec, "registry"),
                                  githubPackages |-> InLock(deps, rec, "github"),
                                  localPackages |-> InLock(deps, rec, "local")],
                        manifest |->
                            IF \A d \in held : rec[d.kind] = "lockfile" THEN NoFile
                            ELSE [dependencies |-> InManifest(deps, rec, "registry"),
                                  githubDependencies |-> InManifest(deps, rec, "github"),
                                  localDependencies |-> InManifest(deps, rec, "local")]]

RemoveNext == RmLocal \/ RmGitHub \/ RmRegistry \/ RmShortName

RemoveSpec == RemoveInit /\ [][RemoveNext]_vars

\* C29: after a remove that succeeded, the registry or GitHub dependency it
\* named, by full specifier or by short name, has no lockfile entry, no
\* manifest entry, no agent link and no store entry.
C29_RemoveLeavesNothing ==
    (tasks.pc = "done" /\ tasks.exit = 0 /\ tasks.dep.kind # "local") =>
        LET d == tasks.dep
            lf == tasks.lockfile
            mf == tasks.manifest
        IN /\ ~Has(LockedPackages(lf), d.key) /\ ~Has(LockedGitHub(lf), d.key)
           /\ ~Has(listLockfileLocalPackages(lf), d.key)
           /\ ~Has(getDependencies(mf), d.key) /\ ~Has(getGitHubDependencies(mf), d.key)
           /\ ~Has(getLocalDependencies(mf), d.key)
           /\ \A a \in getAvailableAgents :
                 SymlinkPath(a, <<>>, SkillInfo(d.skillName, d.storePath)) \notin DOMAIN fsys
           /\ join(ProjectRoot, d.storePath) \notin DOMAIN fsys

----------------------------------------------------------------------------
(* add of GitHub specifiers that differ only in their ref.                 *)

\* parseGitHubSpecifier's result: owner, repo and ref ("" when absent)
GitHubSpecifier(owner, repo, ref) == [owner |-> owner, repo |-> repo, ref |-> ref]

\* a format that forgets the sub-path
formatGitHubSpecifier_NoPath(spec) ==
    <<"github:">> \o spec.owner \o <<"/">> \o spec.repo
        \o (IF spec.ref # <<>> THEN <<"@">> \o spec.ref ELSE <<>>)

\* formatGitHubSpecifier: github:<owner>/<repo>[/<path>][@<ref>], the fields
\* being texts (sequences of characters, empty when absent)
formatGitHubSpecifier(spec) ==
    <<"github:">> \o spec.owner \o <<"/">> \o spec.repo
        \o (IF spec.path # <<>> THEN <<"/">> \o spec.path ELSE <<>>)
        \o (IF spec.ref # <<>> THEN <<"@">> \o spec.ref ELSE <<>>)

\* The text of a parsed specifier whose owner, repository and ref are one
\* piece each and which names no sub-path.
GhText(parsed) ==
    [owner |-> <<parsed.owner>>, repo |-> <<parsed.repo>>, path |-> <<>>,
     ref |-> IF parsed.ref = "" THEN <<>> ELSE <<parsed.ref>>]

\* a key that keeps the ref of the specifier
lockfileSpecifier_WithRef(parsed) == formatGitHubSpecifier(GhText(parsed))

\* installGitHubPackage's lockfile and manifest key: formatted without ref
lockfileSpecifier(parsed) ==
    formatGitHubSpecifier(GhText(GitHubSpecifier(parsed.owner, parsed.repo, "")))

\* the remote repository: two branches at different commits, the default
\* branch being "a"; and the files of the tree at each commit
GhRefs == {"a", "b", ""}
resolveGitHubRef(ref) == IF ref = "b" THEN 2 ELSE 1
GhTree(commit) == IF commit = 1 THEN {"SKILL.md", "old.md"} ELSE {"SKILL.md", "new.md"}
FileOf(data) == [type |-> "file", target |-> <<>>, data |-> data]

\* downloadGitHubPackage: {buffer, commit, integrity}
downloadGitHubPackage(spec) ==
    LET commit == resolveGitHubRef(spec.ref)
    IN [buffer |-> Tarball(lockfileSpecifier(spec), commit), commit |-> commit,
        integrity |-> calculateIntegrity(Tarball(lockfileSpecifier(spec), commit))]

\* extractGitHubPackage: the temporary directory it unpacks into, and the
\* destination, removed and created afresh with the files of the tree
GhDestPath(spec) == join(getSkillsDir, <<"_github", spec.owner, spec.repo>>)
GhTempDir == join(getSkillsDir, <<"_github", ".temp", "now">>)
GhUnpacked(fs, buffer) ==
    LET fs1 == SetEntry(fs, GhTempDir, Directory)
    IN SetEntry(fs1, join(GhTempDir, <<"archive.tgz">>), FileOf(buffer))
GhCopied(fs, spec, buffer) ==
    LET dest == GhDestPath(spec)
        fs1 == SetEntry(rm(fs, dest), dest, Directory)
        new == {join(dest, <<f>>) : f \in GhTree(buffer[2])}
        fs2 == [q \in DOMAIN fs1 \cup new |-> IF q \in new THEN FileOf(buffer[2]) ELSE fs1[q]]
    IN rm(fs2, GhTempDir)

\* createAgentSymlinks([skillInfo], {agents}) on the paths of the project
RECURSIVE LinkedFor(_, _, _)
LinkedFor(fs, skill, agents) ==
    IF agents = <<>> THEN fs
    ELSE IF resolveAgentConfig(Head(agents), <<>>) = NoConfig
    THEN LinkedFor(fs, skill, Tail(agents))
    ELSE LinkedFor(createSymlink(fs, SymlinkPath(Head(agents), <<>>, skill),
                                 RelativeTarget(Head(agents), <<>>, skill)).fs,
                   skill, Tail(agents))

\* addGitHubDependency(specifier, ref): githubDependencies[specifier] = ref
addGitHubDependency(file, specifier, ref) ==
    LET m == IF file = NoFile THEN createMinimalManifest ELSE file
    IN [m EXCEPT !.githubDependencies = Put(m.githubDependencies, [name |-> specifier, range |-> ref])]

GhAddRest == LinkRest
GhCur == tasks.resolved[tasks.i]

\* validateGitHubPackage of the next specifier: the download succeeds and
\* the package is resolved, or it throws and the specifier is dropped
GhAddValidate ==
    /\ tasks.pc = "validate"
    /\ tasks.i <= Len(tasks.cmds[tasks.ci])
    /\ LET spec == tasks.cmds[tasks.ci][tasks.i]
       IN \E ok \in BOOLEAN :
            /\ ~ok => tasks.failed = 0
            /\ tasks' = [tasks EXCEPT
                            !.i = @ + 1,
                            !.failed = IF ok THEN @ ELSE @ + 1,
                            !.resolved =
                                IF ok
                                THEN Append(@, [parsed |-> spec,
                                                ref |-> IF spec.ref = "" THEN "HEAD" ELSE spec.ref,
                                                downloadResult |-> downloadGitHubPackage(spec)])
                                ELSE @]
    /\ UNCHANGED fsys
    /\ GhAddRest

\* all specifiers validated: exit if none resolved, else install in order
GhAddResolved ==
    /\ tasks.pc = "validate"
    /\ tasks.i > Len(tasks.cmds[tasks.ci])
    /\ tasks' = [tasks EXCEPT !.i = 1, !.pc = IF tasks.resolved = <<>> THEN "next" ELSE "unpack"]
    /\ UNCHANGED fsys
    /\ GhAddRest

\* extractGitHubPackage, first half: the tarball in a temporary directory
GhAddUnpack ==
    /\ tasks.pc = "unpack"
    /\ fsys' = GhUnpacked(fsys, GhCur.downloadResult.buffer)
    /\ tasks' = [tasks EXCEPT !.pc = "copy"]
    /\ GhAddRest

\* extractGitHubPackage, second half: rm(destPath), mkdir, cp, rm(tempDir)
GhAddCopy ==
    /\ tasks.pc = "copy"
    /\ fsys' = GhCopied(fsys, GhCur.parsed, GhCur.downloadResult.buffer)
    /\ tasks' = [tasks EXCEPT !.pc = "lock"]
    /\ GhAddRest

\* addGitHubToLockfile(lockfileSpecifier, entry)
GhAddLock ==
    /\ tasks.pc = "lock"
    /\ LET dl == GhCur.downloadResult
           entry == [GitHubLockEntry(lockfileSpecifier(GhCur.parsed), dl.commit, dl.integrity)
                        EXCEPT !.gitRef = GhCur.ref]
       IN tasks' = [tasks EXCEPT !.pc = "manifest",
                                 !.lockfile = addGitHubToLockfile(@, entry)]
    /\ UNCHANGED fsys
    /\ GhAddRest

\* addGitHubDependency(lockfileSpecifier, ref)
GhAddManifest ==
    /\ tasks.pc = "manifest"
    /\ tasks' = [tasks EXCEPT
                    !.pc = "link",
                    !.manifest = addGitHubDependency(@, lockfileSpecifier(GhCur.parsed), GhCur.ref)]
    /\ UNCHANGED fsys
    /\ GhAddRest

\* if (agents[0] !== "none") createAgentSymlinks([skillInfo]); results.push
GhAddLink ==
    /\ tasks.pc = "link"
    /\ LET parsed == GhCur.parsed
           skill == SkillInfo(parsed.repo, getGitHubSkillPath(parsed.owner, parsed.repo))
       IN fsys' = IF tasks.agents[1] # "none" THEN LinkedFor(fsys, skill, tasks.agents) ELSE fsys
    /\ tasks' = [tasks EXCEPT !.installed = Append(@, GhCur.parsed),
                              !.i = @ + 1,
                              !.pc = IF tasks.i + 1 > Len(tasks.resolved) THEN "next" ELSE "unpack"]
    /\ GhAddRest

\* the command has ended; the next one, if any, starts
GhAddEnd ==
    /\ tasks.pc = "next"
    /\ tasks' = IF tasks.ci < Len(tasks.cmds)
                THEN [tasks EXCEPT !.ci = @ + 1, !.i = 1, !.resolved = <<>>, !.pc = "validate"]
                ELSE [tasks EXCEPT !.pc = "done"]
    /\ UNCHANGED fsys
    /\ GhAddRest

\* `pspm add s1 s2` or `pspm add s1` then `pspm add s2`, the two specifiers
\* differing only in ref, in an empty project
GhAddInit ==
    /\ cache = {}
    /\ CommandAtRest
    /\ lockBytes = NoBytes /\ writers = <<>>
    /\ run = 1 /\ disk1 = <<>>
    /\ fsys = <<>>
    /\ \E r1, r2 \in GhRefs : \E together \in BOOLEAN :
       \E agents \in {<<"claude-code">>, <<"none">>, <<"claude-code", "cursor">>} :
         LET s1 == GitHubSpecifier("o", "r", r1)
             s2 == GitHubSpecifier("o", "r", r2)
         IN /\ r1 # r2
            /\ tasks = [pc |-> "validate", ci |-> 1, i |-> 1, resolved |-> <<>>,
                        cmds |-> IF together THEN <<(<<s1, s2>>)>> ELSE <<(<<s1>>), <<s2>>>>,
                        agents |-> agents, lockfile |-> NoFile, manifest |-> NoFile,
                        installed |-> <<>>, failed |-> 0]

GhAddNext ==
    \/ GhAddValidate
    \/ GhAddResolved
    \/ GhAddUnpack
    \/ GhAddCopy
    \/ GhAddLock
    \/ GhAddManifest
    \/ GhAddLink
    \/ GhAddEnd

GhAddSpec == GhAddInit /\ [][GhAddNext]_vars

\* C30: when two GitHub specifiers that differ only in ref have both been
\* added, the lockfile has exactly one githubPackages entry, the manifest
\* exactly one githubDependencies entry and the store exactly one directory
\* for the repository, each of them as the later add made it: its ref, its
\* commit, the files of its tree.
C30_LaterRefWins ==
    (tasks.pc = "done" /\ Len(tasks.installed) = 2) =>
        LET later == tasks.installed[2]
            key == <<"github:", later.owner, "/", later.repo>>
            ref == IF later.ref = "" THEN "HEAD" ELSE later.ref
            commit == resolveGitHubRef(later.ref)
            gh == LockedGitHub(tasks.lockfile)
            deps == getGitHubDependencies(tasks.manifest)
            root == join(getSkillsDir, <<"_github">>)
            dest == join(root, <<later.owner, later.repo>>)
        IN /\ Len(gh) = 1 /\ gh[1].name = key
           /\ gh[1].gitRef = ref /\ gh[1].gitCommit = commit
           /\ gh[1].integrity = calculateIntegrity(Tarball(key, commit))
           /\ Len(deps) = 1 /\ deps[1].name = key /\ deps[1].range = ref
           /\ {q \in DOMAIN fsys : IsPrefix(root, q)}
                  = {dest} \cup {join(dest, <<f>>) : f \in GhTree(commit)}
           /\ fsys[dest] = Directory
           /\ \A f \in GhTree(commit) : fsys[join(dest, <<f>>)] = FileOf(commit)

\* both adds succeeded, the first of branch a and the later of branch b,
\* whose tree lacks a file of the first
C30_Witness ==
    /\ tasks.pc = "done" /\ Len(tasks.installed) = 2
    /\ tasks.installed[1].ref = "a" /\ tasks.installed[2].ref = "b"
    /\ LockedGitHub(tasks.lockfile)[1].gitCommit = 2
    /\ join(GhDestPath(tasks.installed[2]), <<"old.md">>) \notin DOMAIN fsys

----------------------------------------------------------------------------
(* The resolver's depth limit, its version choice and its termination.     *)

\* C31: an entry dequeued at a depth greater than maxDepth records exactly
\* one max_depth_exceeded error carrying path + [name] and nothing else of
\* the resolution changes; so no node has a depth greater than maxDepth and
\* no collected range comes from such an entry.
C31_DepthLimit ==
    /\ [](\A i \in 1..Len(nodes) : nodes[i].depth <= MAX_DEPENDENCY_DEPTH)
    /\ [](\A i \in 1..Len(rangesByPackage) : \A j \in 1..Len(rangesByPackage[i].ranges) :
            rangesByPackage[i].ranges[j].depth <= MAX_DEPENDENCY_DEPTH)
    /\ [][(pc = "phase1" /\ queue # <<>> /\ Head(queue).depth > MAX_DEPENDENCY_DEPTH) =>
            /\ errors' = Append(errors, Err("max_depth_exceeded", Head(queue).name,
                                            Append(Head(queue).path, Head(queue).name)))
            /\ queue' = Tail(queue)
            /\ nodes' = nodes
            /\ rangesByPackage' = rangesByPackage
            /\ processing' = processing]_vars

\* the chain of seven packages has been resolved: a node sits at depth
\* maxDepth and the entry one level below was refused with its whole path
C31_Witness ==
    /\ \E i \in 1..Len(nodes) : nodes[i].depth = MAX_DEPENDENCY_DEPTH
    /\ \E i \in 1..Len(errors) :
          /\ errors[i].type = "max_depth_exceeded"
          /\ errors[i].path = DeepChain
    /\ ~Has(nodes, DeepChain[Len(DeepChain)])

\* findHighestSatisfying on lists of version strings and of ranges
VersionStrings == {100, 110, 200, Pre(200), -1}
RangeStrings == {Star, Empty, Latest, Caret(100), Gte(110), Exact(200), Gte(Pre(200))}
MaxVersions == 3
MaxRanges == 2
SeqsUpTo(S, n) == UNION {[1..k -> S] : k \in 0..n}

VersionRest ==
    UNCHANGED <<envVars, pc, faults, resolverVars, cmdVars, diskVars, exitCode, log,
                fsVars, fsys, run, disk1>>

VersionCall ==
    /\ tasks.pc = "call"
    /\ tasks' = [tasks EXCEPT !.pc = "returned",
                              !.result = findHighestSatisfying(tasks.ranges, tasks.versions)]
    /\ VersionRest

VersionInit ==
    /\ cache = {}
    /\ CommandAtRest
    /\ lockBytes = NoBytes /\ writers = <<>>
    /\ run = 1 /\ disk1 = <<>> /\ fsys = <<>>
    /\ \E V \in SeqsUpTo(VersionStrings, MaxVersions) : \E R \in SeqsUpTo(RangeStrings, MaxRanges) :
         tasks = [pc |-> "call", versions |-> V, ranges |-> R, result |-> Null]

VersionSpec == VersionInit /\ [][VersionCall]_vars

\* C32: findHighestSatisfying(R, V) is the greatest valid version of V that
\* satisfies every range of R, where "*", "" and "latest" constrain
\* nothing, or none when there is no such version; an invalid string is
\* never returned.
C32_HighestSatisfying ==
    tasks.pc = "returned" =>
        LET ok == {v \in SeqToSet(tasks.versions) :
                     /\ Valid(v)
                     /\ \A i \in 1..Len(tasks.ranges) :
                           \/ tasks.ranges[i].op \in {"*", "", "latest"}
                           \/ Satisfies(v, tasks.ranges[i])}
        IN tasks.result = IF ok = {} THEN Null ELSE SetMax(ok)

----------------------------------------------------------------------------
(* The Authorization header of a tarball download.  A URL string is the    *)
(* sequence of its pieces: scheme, host labels, path pieces, "?" and the   *)
(* query pieces.                                                           *)

R2Suffix == ".r2.cloudflarestorage.com"
AmzSignature == "X-Amz-Signature"

\* String.prototype.includes for the two markers: a piece of the string
includes(url, marker) == \E i \in 1..Len(url) : url[i] = marker

\* the host the request goes to: what stands between the scheme and the
\* path, compared without regard to case
ToLowerCase(piece) == IF piece = ".R2.CLOUDFLARESTORAGE.COM" THEN R2Suffix ELSE piece
HostEnd(url) == IF includes(url, "/") THEN IndexOf(url, "/") - 1 ELSE Len(url)
HostOf(url) == [i \in 1..(HostEnd(url) - 1) |-> ToLowerCase(url[i + 1])]
QueryOf(url) == IF includes(url, "?") THEN SubSeq(url, IndexOf(url, "?") + 1, Len(url)) ELSE <<>>

\* const isPresignedUrl = url.includes(".r2.cloudflarestorage.com") ||
\*                        url.includes("X-Amz-Signature")
isPresignedUrl(url) == includes(url, R2Suffix) \/ includes(url, AmzSignature)

\* if (!isPresignedUrl && apiKey) downloadHeaders.Authorization = `Bearer ${apiKey}`
downloadHeaders(url, apiKey) ==
    IF ~isPresignedUrl(url) /\ apiKey # "" THEN <<[name |-> "Authorization", value |-> <<"Bearer", apiKey>>]>>
    ELSE <<>>

DownloadUrls ==
    {<<"https://">> \o host \o path \o query :
        host \in {<<"registry.pspm.dev">>, <<"acct", R2Suffix>>, <<"ACCT", ".R2.CLOUDFLARESTORAGE.COM">>,
                  <<"cdn.example">>},
        path \in {<<"/", "t.tgz">>, <<"/", "mirror", R2Suffix, "/", "t.tgz">>},
        query \in {<<>>, <<"?", AmzSignature, "=abc">>, <<"?", "v", "=1">>}}

\* the three places that download a registry tarball: add, and install's
\* resolution of a missing dependency and its download of a locked entry
DownloadSites == {"installFromNode", "installFromLockfile.resolve", "installFromLockfile.download"}

FetchTarball ==
    /\ tasks.pc = "fetch"
    /\ tasks' = [tasks EXCEPT !.pc = "sent", !.headers = downloadHeaders(tasks.url, tasks.apiKey)]
    /\ VersionRest

DownloadInit ==
    /\ cache = {}
    /\ CommandAtRest
    /\ lockBytes = NoBytes /\ writers = <<>>
    /\ run = 1 /\ disk1 = <<>> /\ fsys = <<>>
    /\ \E url \in DownloadUrls : \E apiKey \in {"", "token"} : \E site \in DownloadSites :
         tasks = [pc |-> "fetch", site |-> site, url |-> url, apiKey |-> apiKey, headers |-> <<>>]

DownloadSpec == DownloadInit /\ [][FetchTarball]_vars

\* C33: a download request carries the Authorization header exactly when a
\* token is available and the URL is not presigned, that is, its host is
\* not under r2.cloudflarestorage.com and its query has no X-Amz-Signature.
C33_TokenOnlyToRegistry ==
    tasks.pc = "sent" =>
        LET host == HostOf(tasks.url)
            presigned == \/ (host # <<>> /\ host[Len(host)] = R2Suffix)
                         \/ includes(QueryOf(tasks.url), AmzSignature)
        IN (tasks.headers # <<>>) <=> (tasks.apiKey # "" /\ ~presigned)

----------------------------------------------------------------------------
(* Temporary files of the staging steps: extraction of a registry tarball, *)
(* extraction of a GitHub tarball, staging of a publish.                   *)

RegDestDir == join(getSkillsDir, <<"u", "n">>)
RegTempFile == join(RegDestDir, <<".temp.tgz">>)
PublishTempDir == join(ProjectRoot, <<".pspm-publish">>)
StagedSpec == GitHubSpecifier("o", "r", "")

TempOf(kind) ==
    CASE kind = "registry" -> RegTempFile
      [] kind = "github" -> GhTempDir
      [] kind = "publish" -> PublishTempDir

\* installFromNode: mkdir(destDir); writeFile(tempFile, tarballBuffer),
\* before the try: a failed open leaves nothing, a failed write the file
StageWriteTemp ==
    /\ tasks.pc = "start" /\ tasks.kind = "registry"
    /\ \E f \in {"ok", "open", "write"} :
         /\ fsys' = IF f = "open" THEN SetEntry(fsys, RegDestDir, Directory)
                    ELSE SetEntry(SetEntry(fsys, RegDestDir, Directory), RegTempFile,
                                  FileOf(IF f = "ok" THEN "tarball" ELSE "partial"))
         /\ tasks' = [tasks EXCEPT !.pc = IF f = "ok" THEN "try" ELSE "failed"]
    /\ LinkRest

\* try { rm(destDir); mkdir(destDir); writeFile(tempFile); tar -xzf ... }
StageExtract ==
    /\ tasks.pc = "try" /\ tasks.kind = "registry"
    /\ \E f \in {"ok", "write", "tar"} :
         LET fs1 == SetEntry(rm(fsys, RegDestDir), RegDestDir, Directory)
             fs2 == SetEntry(fs1, RegTempFile, FileOf(IF f = "write" THEN "partial" ELSE "tarball"))
         IN /\ fsys' = IF f = "ok" THEN SetEntry(fs2, join(RegDestDir, <<"SKILL.md">>), FileOf("n"))
                       ELSE fs2
            /\ tasks' = [tasks EXCEPT !.pc = "finally", !.err = f # "ok"]
    /\ LinkRest

\* extractGitHubPackage: mkdir(tempDir) before the try; then the tarball is
\* written and unpacked and the subpath looked up, each of which may throw
GhStageUnpack ==
    /\ tasks.pc = "start" /\ tasks.kind = "github"
    /\ \E f \in {"ok", "write", "tar", "nopath"} :
         /\ fsys' = IF f = "write"
                    THEN SetEntry(SetEntry(fsys, GhTempDir, Directory),
                                  join(GhTempDir, <<"archive.tgz">>), FileOf("partial"))
                    ELSE GhUnpacked(fsys, Tarball(lockfileSpecifier(StagedSpec), 1))
         /\ tasks' = [tasks EXCEPT !.pc = IF f = "ok" THEN "copy" ELSE "finally", !.err = f # "ok"]
    /\ LinkRest

\* rm(destPath); mkdir(destPath); cp(copySource, destPath)
GhStageCopy ==
    /\ tasks.pc = "copy" /\ tasks.kind = "github"
    /\ LET dest == GhDestPath(StagedSpec)
           fs1 == SetEntry(rm(fsys, dest), dest, Directory)
       IN fsys' = SetEntry(fs1, join(dest, <<"SKILL.md">>), FileOf(1))
    /\ tasks' = [tasks EXCEPT !.pc = "finally"]
    /\ LinkRest

\* publish: try { rm -rf tempDir && mkdir -p tempDir; copy the files; tar }
PublishStage ==
    /\ tasks.pc = "start" /\ tasks.kind = "publish"
    /\ \E f \in {"ok", "tar"} :
         LET fs1 == SetEntry(rm(fsys, PublishTempDir), PublishTempDir, Directory)
             fs2 == SetEntry(fs1, join(PublishTempDir, <<"package">>), Directory)
         IN /\ fsys' = IF f = "ok" THEN SetEntry(fs2, join(PublishTempDir, <<"n.tgz">>), FileOf("tarball"))
                       ELSE fs2
            /\ tasks' = [tasks EXCEPT !.pc = IF f = "ok" THEN "publish" ELSE "finally",
                                      !.err = f # "ok"]
    /\ LinkRest

\* publishSkill(...): a status other than 200 throws
PublishSend ==
    /\ tasks.pc = "publish" /\ tasks.kind = "publish"
    /\ \E ok \in BOOLEAN : tasks' = [tasks EXCEPT !.pc = "finally", !.err = ~ok]
    /\ UNCHANGED fsys
    /\ LinkRest

\* finally { rm(tempFile) | rm(tempDir) | rm -rf tempDir }
StageFinally ==
    /\ tasks.pc = "finally"
    /\ fsys' = rm(fsys, TempOf(tasks.kind))
    /\ tasks' = [tasks EXCEPT !.pc = IF tasks.err THEN "failed" ELSE "done"]
    /\ LinkRest

\* the process is interrupted by a signal; no handler is installed, so
\* nothing more of it runs
Interrupt ==
    /\ tasks.pc \notin {"done", "failed", "killed"}
    /\ tasks' = [tasks EXCEPT !.pc = "killed"]
    /\ UNCHANGED fsys
    /\ LinkRest

\* the project before the step: nothing installed, or the skill already in
\* place from an earlier run
StagingInit ==
    /\ cache = {}
    /\ CommandAtRest
    /\ lockBytes = NoBytes /\ writers = <<>>
    /\ run = 1 /\ disk1 = <<>>
    /\ \E kind \in {"registry", "github", "publish"} : \E before \in SUBSET {"registry", "github", "other"} :
         /\ tasks = [pc |-> "start", kind |-> kind, err |-> FALSE]
         /\ fsys = [q \in {RegDestDir : x \in before \cap {"registry"}}
                           \cup {GhDestPath(StagedSpec) : x \in before \cap {"github"}}
                           \cup {join(getSkillsDir, <<"u", "z">>) : x \in before \cap {"other"}} |->
                        Directory]

StagingNext ==
    \/ StageWriteTemp
    \/ StageExtract
    \/ GhStageUnpack
    \/ GhStageCopy
    \/ PublishStage
    \/ PublishSend
    \/ StageFinally
    \/ Interrupt

StagingSpec == StagingInit /\ [][StagingNext]_vars

\* C34: once a staging step has ended (success, failure or interruption),
\* neither .temp.tgz under the destination nor _github/.temp/<timestamp>
\* nor .pspm-publish exists.
C34_NoTempLeft ==
    tasks.pc \in {"done", "failed", "killed"} =>
        \A q \in DOMAIN fsys :
            \A kind \in {"registry", "github", "publish"} : ~IsPrefix(TempOf(kind), q)

----------------------------------------------------------------------------
(* Specifier strings parsed and formatted back.  A string is a sequence    *)
(* of characters; a leading "@user/", "github:" or "file:" is one piece.   *)

\* one character of each class the patterns tell apart: a lower-case
\* letter, a character of [A-Z0-9_-], a dot, and the two separators
SpecChars == {"a", "A", ".", "/", "@"}
UsernameChars == {"a", "A"}
NameChars == {"a"}
RepoChars == {"a", "A", "."}
MaxChars == 7

NoMatch == [ok |-> FALSE]

\* the text of s before the first c (all of s when c does not occur)
UpTo(s, c) == IF Includes(s, c) THEN SubSeq(s, 1, IndexOf(s, c) - 1) ELSE s

\* the longest prefix of s made of characters of class
RunOf(s, class) ==
    LET n == CHOOSE k \in 0..Len(s) :
                 /\ \A i \in 1..k : s[i] \in class
                 /\ (k < Len(s) => s[k + 1] \notin class)
    IN  SubSeq(s, 1, n)

Drop(s, n) == SubSeq(s, n + 1, Len(s))

\* the optional trailing group (?:@(.+))?$ on what is left of the string
AtGroup(rest) ==
    IF rest = <<>> THEN [ok |-> TRUE, text |-> <<>>]
    ELSE IF rest[1] = "@" /\ Len(rest) >= 2 THEN [ok |-> TRUE, text |-> Tail(rest)]
    ELSE NoMatch

\* parseSkillSpecifier:
\* /^@user\/([a-zA-Z0-9_-]+)\/([a-z][a-z0-9_-]*)(?:@(.+))?$/
parseSkillSpecifier(specifier) ==
    IF specifier = <<>> \/ Head(specifier) # "@user/" THEN NoMatch
    ELSE LET body == Tail(specifier)
             username == RunOf(body, UsernameChars)
             afterUser == Drop(body, Len(username))
         IN  IF username = <<>> \/ afterUser = <<>> \/ afterUser[1] # "/" THEN NoMatch
             ELSE LET name == RunOf(Tail(afterUser), NameChars)
                      version == AtGroup(Drop(Tail(afterUser), Len(name)))
                  IN  IF name = <<>> \/ ~version.ok THEN NoMatch
                      ELSE [ok |-> TRUE, username |-> username, name |-> name,
                            versionRange |-> version.text]

\* generateSkillIdentifier(username, name, version?)
generateSkillIdentifier(username, name, version) ==
    <<"@user/">> \o username \o <<"/">> \o name
        \o (IF version # <<>> THEN <<"@">> \o version ELSE <<>>)

\* isGitHubSpecifier
isGitHubSpecifier(specifier) == specifier # <<>> /\ Head(specifier) = "github:"

\* parseGitHubSpecifier:
\* /^github:([a-zA-Z0-9_-]+)\/([a-zA-Z0-9_.-]+)(\/[^@]+)?(?:@(.+))?$/
parseGitHubSpecifier(specifier) ==
    IF ~isGitHubSpecifier(specifier) THEN NoMatch
    ELSE LET body == Tail(specifier)
             owner == RunOf(body, UsernameChars)
             afterOwner == Drop(body, Len(owner))
         IN  IF owner = <<>> \/ afterOwner = <<>> \/ afterOwner[1] # "/" THEN NoMatch
             ELSE LET repo == RunOf(Tail(afterOwner), RepoChars)
                      afterRepo == Drop(Tail(afterOwner), Len(repo))
                      pathWithSlash ==
                          IF afterRepo # <<>> /\ afterRepo[1] = "/"
                          THEN UpTo(afterRepo, "@")
                          ELSE <<>>
                      ref == AtGroup(Drop(afterRepo, Len(pathWithSlash)))
                  IN  IF repo = <<>> \/ Len(pathWithSlash) = 1 \/ ~ref.ok THEN NoMatch
                      ELSE [ok |-> TRUE, owner |-> owner, repo |-> repo,
                            path |-> IF pathWithSlash # <<>> THEN Tail(pathWithSlash) ELSE <<>>,
                            ref |-> ref.text]

\* isLocalSpecifier, isBareLocalPath
isLocalSpecifier(specifier) == specifier # <<>> /\ Head(specifier) = "file:"
StartsWith(s, prefix) == Len(s) >= Len(prefix) /\ SubSeq(s, 1, Len(prefix)) = prefix
isBareLocalPath(specifier) ==
    StartsWith(specifier, <<".", "/">>) \/ StartsWith(specifier, <<".", ".", "/">>)

\* parseLocalSpecifier: /^file:(.+)$/
parseLocalSpecifier(specifier) ==
    IF ~isLocalSpecifier(specifier) \/ Tail(specifier) = <<>> THEN NoMatch
    ELSE [ok |-> TRUE, path |-> Tail(specifier)]

\* formatLocalSpecifier
formatLocalSpecifier(spec) == <<"file:">> \o spec.path

\* normalizeToFileSpecifier
normalizeToFileSpecifier(path) ==
    IF isLocalSpecifier(path) THEN path ELSE <<"file:">> \o path

\* the kind add takes a specifier for, and the parse and format of that kind
SpecifierKind(s) ==
    IF isLocalSpecifier(s) \/ isBareLocalPath(s) THEN "local"
    ELSE IF isGitHubSpecifier(s) THEN "github"
    ELSE "registry"

Reformat(s) ==
    LET kind == SpecifierKind(s)
        text == IF kind = "local" THEN normalizeToFileSpecifier(s) ELSE s
        parsed == CASE kind = "local" -> parseLocalSpecifier(text)
                    [] kind = "github" -> parseGitHubSpecifier(text)
                    [] OTHER -> parseSkillSpecifier(text)
    IN  [pc |-> "done", input |-> s, kind |-> kind, text |-> text, parsed |-> parsed,
         formatted |->
             IF ~parsed.ok THEN <<>>
             ELSE CASE kind = "local" -> formatLocalSpecifier(parsed)
                    [] kind = "github" -> formatGitHubSpecifier(parsed)
                    [] OTHER -> generateSkillIdentifier(parsed.username, parsed.name,
                                                        parsed.versionRange)]

SpecifierPrefixes == {<<>>, <<"@user/">>, <<"github:">>, <<"file:">>}

SpecifierCall ==
    /\ tasks.pc = "start"
    /\ tasks' = Reformat(tasks.input)
    /\ VersionRest

SpecifierInit ==
    /\ cache = {}
    /\ CommandAtRest
    /\ lockBytes = NoBytes /\ writers = <<>>
    /\ run = 1 /\ disk1 = <<>> /\ fsys = <<>>
    /\ \E pre \in SpecifierPrefixes : \E body \in SeqsUpTo(SpecChars, MaxChars) :
         tasks = [pc |-> "start", input |-> pre \o body]

SpecifierSpec == SpecifierInit /\ [][SpecifierCall]_vars

\* C35: a registry or GitHub specifier the parser accepts is formatted back
\* to the string it was parsed from; a bare ./x or ../x becomes file:./x or
\* file:../x, and that string is formatted back to itself.
C35_RoundTrip ==
    (tasks.pc = "done" /\ tasks.parsed.ok) =>
        /\ tasks.formatted = tasks.text
        /\ tasks.kind # "local" => tasks.text = tasks.input
        /\ isBareLocalPath(tasks.input) => tasks.text = <<"file:">> \o tasks.input

\* a GitHub specifier with a sub-path and a ref went through the round trip
C35_Witness ==
    /\ tasks.pc = "done" /\ tasks.parsed.ok
    /\ tasks.input = <<"github:", "a", "/", "a", "/", "a", "@", "a">>
    /\ tasks.parsed.path = <<"a">> /\ tasks.parsed.ref = <<"a">>

----------------------------------------------------------------------------
(* Sequences of lockfile mutator calls on one pspm-lock.json.              *)

MaxCalls == 2
MutatorNames == {"a", "b", "u"}
MutatorGitHub == {GhSpec, "github:o/s"}

\* the three sections and the registry URL of a lockfile document
SectionOf(file, section) ==
    IF file = NoFile \/ section \notin DOMAIN file THEN <<>> ELSE file[section]
RegistryUrlOf(file) == IF file = NoFile THEN RegistryUrl ELSE file.registryUrl

MutateRest ==
    UNCHANGED <<envVars, pc, faults, resolverVars, cmdVars, diskVars, exitCode, log,
                fsVars, fsys, run, disk1>>

\* one call: the document on disk before it, the section and key it targets
Called(file, section, target) ==
    tasks' = [pc |-> "idle", calls |-> tasks.calls + 1, prev |-> tasks.file, file |-> file,
              section |-> section, target |-> target]

MutAdd ==
    /\ tasks.calls < MaxCalls
    /\ \E n \in MutatorNames : \E v \in {100, 110} :
         Called(addToLockfile(tasks.file, LockEntry(n, v, DownloadUrl(n, v), RegIntegrity(n, v), <<>>)),
                "packages", n)
    /\ MutateRest

MutAddWithDeps ==
    /\ tasks.calls < MaxCalls
    /\ \E n \in MutatorNames : \E deps \in {<<>>, <<[name |-> "u", range |-> Star]>>} :
         Called(addToLockfileWithDeps(tasks.file,
                    LockEntry(n, 100, DownloadUrl(n, 100), RegIntegrity(n, 100), <<>>), deps),
                "packages", n)
    /\ MutateRest

MutAddGitHub ==
    /\ tasks.calls < MaxCalls
    /\ \E g \in MutatorGitHub : \E commit \in {1, 2} :
         Called(addGitHubToLockfile(tasks.file,
                    GitHubLockEntry(g, commit, calculateIntegrity(Tarball(g, commit)))),
                "githubPackages", g)
    /\ MutateRest

MutRemove ==
    /\ tasks.calls < MaxCalls
    /\ \E n \in MutatorNames : Called(removeFromLockfile(tasks.file, n), "packages", n)
    /\ MutateRest

MutRemoveGitHub ==
    /\ tasks.calls < MaxCalls
    /\ \E g \in MutatorGitHub :
         Called(removeGitHubFromLockfile(tasks.file, g), "githubPackages", g)
    /\ MutateRest

MutateInit ==
    /\ cache = {}
    /\ CommandAtRest
    /\ lockBytes = NoBytes /\ writers = <<>>
    /\ run = 1 /\ disk1 = <<>> /\ fsys = <<>>
    /\ \E file \in CodecDocs \cup {NoFile} :
         tasks = [pc |-> "idle", calls |-> 0, prev |-> NoFile, file |-> file,
                  section |-> "packages", target |-> "a"]

MutateNext ==
    \/ MutAdd
    \/ MutAddWithDeps
    \/ MutAddGitHub
    \/ MutRemove
    \/ MutRemoveGitHub

MutateSpec == MutateInit /\ [][MutateNext]_vars

\* C36: after each call of a lockfile mutator, every entry other than the
\* targeted one is as it was before the call, in packages, githubPackages
\* and localPackages, and registryUrl is as it was.
C36_MutatorFrame ==
    tasks.calls > 0 =>
        /\ \A section \in {"packages", "githubPackages", "localPackages"} :
              LET before == SectionOf(tasks.prev, section)
                  after == SectionOf(tasks.file, section)
              IN  IF section = tasks.section
                  THEN Del(before, tasks.target) = Del(after, tasks.target)
                  ELSE before = after
        /\ RegistryUrlOf(tasks.file) = RegistryUrlOf(tasks.prev)

----------------------------------------------------------------------------
(* Skills that share a short name, added and removed one at a time.        *)

MaxOps == 4

\* @user/alice/x, @user/bob/x, github:o/x and @user/alice/y
SharedSkills ==
    {[kind |-> "registry", key |-> <<"@user", u, n>>, skillName |-> n,
      storePath |-> getRegistrySkillPath(u, n)] :
        u \in {"alice", "bob"}, n \in {"x"}}
    \cup {[kind |-> "registry", key |-> <<"@user", "alice", "y">>, skillName |-> "y",
           storePath |-> getRegistrySkillPath("alice", "y")],
          [kind |-> "github", key |-> <<"github:", "o", "x">>, skillName |-> "x",
           storePath |-> getGitHubSkillPath("o", "x")]}

SharedAgents == <<"claude-code", "cursor">>

InLockfile(file, d) == Has(LockedPackages(file), d.key) \/ Has(LockedGitHub(file), d.key)

\* add of one skill: the store directory is extracted anew, the lockfile
\* and the manifest get its entry, and createAgentSymlinks([skillInfo])
\* runs for the default agents
addOne(P, d) ==
    LET destDir == join(ProjectRoot, d.storePath)
        skill == SkillInfo(d.skillName, d.storePath)
    IN [lockfile |->
            IF d.kind = "github"
            THEN addGitHubToLockfile(P.lockfile,
                     GitHubLockEntry(d.key, GhCommit, calculateIntegrity(Tarball(d.key, GhCommit))))
            ELSE addToLockfileWithDeps(P.lockfile,
                     LockEntry(d.key, 100, DownloadUrl(d.key, 100), RegIntegrity(d.key, 100), <<>>),
                     <<>>),
        manifest |->
            IF d.kind = "github" THEN addGitHubDependency(P.manifest, d.key, "")
            ELSE addDependency(P.manifest, d.key, Caret(100)),
        fs |-> LinkedFor(SetEntry(rm(P.fs, destDir), destDir, Directory), skill, SharedAgents),
        exit |-> 0]

ShareDone(R, op, d) ==
    /\ tasks' = [tasks EXCEPT !.ops = @ + 1, !.lockfile = R.lockfile, !.manifest = R.manifest,
                              !.exit = R.exit, !.op = op, !.dep = d]
    /\ fsys' = R.fs
    /\ LinkRest

ShareAdd ==
    /\ tasks.ops < MaxOps
    /\ \E d \in SharedSkills : ShareDone(addOne(Project, d), "add", d)

ShareRemove ==
    /\ tasks.ops < MaxOps
    /\ \E d \in SharedSkills :
         /\ InLockfile(tasks.lockfile, d)
         /\ ShareDone(IF d.kind = "github" THEN removeGitHub(Project, d.key)
                      ELSE removeRegistry(Project, d.key), "remove", d)

ShareInit ==
    /\ cache = {}
    /\ CommandAtRest
    /\ lockBytes = NoBytes /\ writers = <<>>
    /\ run = 1 /\ disk1 = <<>> /\ fsys = <<>>
    /\ tasks = [ops |-> 0, lockfile |-> NoFile, manifest |-> NoFile, exit |-> -1,
                op |-> "none", dep |-> CHOOSE d \in SharedSkills : TRUE]

ShareNext ==
    \/ ShareAdd
    \/ ShareRemove

ShareSpec == ShareInit /\ [][ShareNext]_vars

\* what is at a path, and what is at or below a store path
EntryAt(fs, q) == IF q \in DOMAIN fs THEN fs[q] ELSE [type |-> "absent", target |-> <<>>]
StoreTree(fs, d) == {<<q, fs[q]>> : q \in {x \in DOMAIN fs : IsPrefix(join(ProjectRoot, d.storePath), x)}}

\* C37: an add or remove of one skill leaves, for every other skill that is
\* in the lockfile before and after, its agent links and its store entry
\* as they were.
C37_OtherSkillsUntouched ==
    [][tasks'.ops > tasks.ops =>
          \A d \in SharedSkills \ {tasks'.dep} :
              (InLockfile(tasks.lockfile, d) /\ InLockfile(tasks'.lockfile, d)) =>
                  /\ StoreTree(fsys', d) = StoreTree(fsys, d)
                  /\ \A i \in 1..Len(SharedAgents) :
                        LET q == SymlinkPath(SharedAgents[i], <<>>, SkillInfo(d.skillName, d.storePath))
                        IN EntryAt(fsys', q) = EntryAt(fsys, q)]_vars

----------------------------------------------------------------------------
\* C38: whenever resolveRecursive returns success = true, installOrder holds
\* every node of the graph exactly once.
C38_OrderCoversNodes ==
    [][pc = "phase3" =>
          (success' => /\ Len(installOrder') = Len(nodes)
                       /\ \A n \in KeySet(nodes) : Includes(installOrder', n))]_vars

----------------------------------------------------------------------------
(* add and install under every form of the --agent list.                   *)

AgentScenarios == {"direct", "conflict"}

AgentCommands(s) ==
    {Command("add", sp, FALSE, ag, "") : sp \in SpecLists(s, MaxSpecs), ag \in AgentLists}
    \cup {Command("install", <<>>, fr, ag, "") : fr \in BOOLEAN, ag \in AgentLists}

AddNext ==
    \/ Validate
    \/ ValidateDone
    \/ Phase1Step
    \/ Phase1Done
    \/ Phase2Step
    \/ Phase2Done
    \/ Phase3
    \/ AddFetch
    \/ AddVerify
    \/ AddStage
    \/ AddUntar
    \/ AddCleanup
    \/ AddLock
    \/ AddManifest
    \/ AddLink
    \/ AddSummary

AgentInit ==
    /\ scenario \in AgentScenarios
    /\ cmd \in AgentCommands(scenario)
    /\ InitRest

AgentSpec == AgentInit /\ [][AddNext \/ InstallNext]_vars

\* C39: when add or install has installed skills and the agent list holds a
\* name other than "none", at any position, each skill it installed has a
\* link under every known agent of the list; under the sole "none" no link
\* is created.
C39_NoneOnlyWhenSole ==
    /\ [](cmd.agents = <<"none">> => links = disk0[6])
    /\ []((/\ pc = "done" /\ exitCode = 0 /\ faults = 0
           /\ \E i \in 1..Len(cmd.agents) : cmd.agents[i] # "none") =>
             WantedLinks(IF cmd.kind = "add"
                         THEN {results[i].specifier : i \in {j \in 1..Len(results) : results[j].success}}
                         ELSE SeqToSet(installedSkills),
                         cmd.agents) \subseteq links)

----------------------------------------------------------------------------
(* Termination of the resolver and of the two orderings.                   *)

\* computeInstallOrder's input: lockfile packages over three names, each
\* with up to two dependencies, which may form cycles or name a package
\* that has no entry
OrderNames == <<"a", "b", "c">>
OrderInputs ==
    UNION {{[i \in 1..Len(names) |-> [name |-> names[i], dependencies |-> deps[names[i]]]] :
               deps \in [SeqToSet(names) -> DistinctSeqs(SeqToSet(OrderNames), 2)]} :
           names \in {SelectSeq(OrderNames, LAMBDA n : n \in S) : S \in SUBSET SeqToSet(OrderNames)}}

\* the dependencies visit(name) loops over: none when packages[name] is
\* undefined
OrderDeps(packages, name) ==
    IF Has(packages, name) THEN Get(packages, name).dependencies ELSE <<>>

\* for (const name of Object.keys(packages)) visit(name), at the top level:
\* a visited name returns at once
OrderOuter ==
    /\ pc = "lock" /\ tasks.pc = "visit"
    /\ tasks.stack = <<>> /\ tasks.k <= Len(tasks.packages)
    /\ LET name == tasks.packages[tasks.k].name
       IN tasks' = IF name \in tasks.visited THEN [tasks EXCEPT !.k = @ + 1]
                   ELSE [tasks EXCEPT !.k = @ + 1, !.visited = @ \cup {name},
                                      !.stack = <<[name |-> name, i |-> 1]>>]
    /\ VersionRest

\* one turn of the innermost visit: the next dependency is visited unless it
\* was visited before; after the last one the name is pushed to order
OrderVisit ==
    /\ pc = "lock" /\ tasks.pc = "visit"
    /\ tasks.stack # <<>>
    /\ LET n == Len(tasks.stack)
           top == tasks.stack[n]
           deps == OrderDeps(tasks.packages, top.name)
       IN tasks' =
            IF top.i <= Len(deps)
            THEN LET dep == deps[top.i]
                     stepped == [tasks.stack EXCEPT ![n].i = @ + 1]
                 IN IF dep \in tasks.visited THEN [tasks EXCEPT !.stack = stepped]
                    ELSE [tasks EXCEPT !.visited = @ \cup {dep},
                                       !.stack = Append(stepped, [name |-> dep, i |-> 1])]
            ELSE [tasks EXCEPT !.stack = SubSeq(@, 1, n - 1), !.order = Append(@, top.name)]
    /\ VersionRest

\* return order
OrderDone ==
    /\ pc = "lock" /\ tasks.pc = "visit"
    /\ tasks.stack = <<>> /\ tasks.k > Len(tasks.packages)
    /\ tasks' = [tasks EXCEPT !.pc = "done"]
    /\ VersionRest

ResolveInit ==
    \/ /\ scenario \in Scenarios
       /\ cmd \in {c \in AddCommands(scenario) : c.agents = <<"none">>}
       /\ InitRest
       /\ lockfile = NoFile
    \/ /\ cache = {}
       /\ CommandAtRest
       /\ lockBytes = NoBytes /\ writers = <<>>
       /\ run = 1 /\ disk1 = <<>> /\ fsys = <<>>
       /\ \E packages \in OrderInputs :
            tasks = [pc |-> "visit", packages |-> packages, k |-> 1, stack |-> <<>>,
                     visited |-> {}, order |-> <<>>]

ResolveNext ==
    \/ Validate
    \/ ValidateDone
    \/ Phase1Step
    \/ Phase1Done
    \/ Phase2Step
    \/ Phase2Done
    \/ Phase3
    \/ OrderOuter
    \/ OrderVisit
    \/ OrderDone

\* resolveRecursive and computeInstallOrder are sequential code: the step
\* that is enabled is the next statement of the running process
ResolveLive == ResolveInit /\ [][ResolveNext]_vars /\ WF_vars(ResolveNext)

Resolving == pc \in {"validate", "phase1", "phase2", "phase3"}

\* the step records the outcome of a request for the dequeued package
FetchRecorded ==
    /\ pc = "phase1" /\ queue # <<>>
    /\ \/ nodes' # nodes
       \/ /\ Len(errors') > Len(errors)
          /\ errors'[Len(errors')].type \in
                 {"package_not_found", "no_satisfying_version", "fetch_error"}

\* C40: resolveRecursive ends: the queue of Phase 1 becomes empty and
\* Phase 3, with topologicalSort, returns, on registries with cycles,
\* diamonds and chains deeper than maxDepth; in Phase 1 a package is
\* fetched only if it was not fetched before; and computeInstallOrder
\* returns on every input, cyclic ones included.
C40_ResolverTerminates ==
    /\ <>(~Resolving)
    /\ (pc = "phase1") ~> (queue = <<>>)
    /\ <>(pc = "lock" => tasks.pc = "done")
    /\ [][FetchRecorded => /\ Head(queue).name \notin processing
                           /\ Head(queue).name \in processing']_vars

\* a registry with a cycle went through all three phases
C40_Witness ==
    scenario = "cycle" /\ ~Resolving /\ Len(nodes) = 2 /\ errors # <<>>

====
